---- MODULE Spec2Model ----
(***************************************************************************)
(* Model of the rate-limiting engines of go-rate-limiter: the token        *)
(* bucket, the sliding-window log and the sliding-window counter, each a   *)
(* Lua script evaluated atomically by the store plus the Go code that      *)
(* builds the script's arguments and maps its reply to a response.         *)
(*                                                                         *)
(* Time is an integer number of ticks.  The source works in nanoseconds    *)
(* with 1e9 of them per second; the model keeps every formula of the       *)
(* source and shrinks only the number of ticks in a second                 *)
(* (NanosecondsPerSecond below).  Fractional token values are multiples    *)
(* of 1/NanosecondsPerSecond (the refill rate is an integer number of      *)
(* tokens per second and timestamps are whole ticks), so the model holds   *)
(* a token value x as the integer x * NanosecondsPerSecond and all of the  *)
(* script's arithmetic is exact.  Rounding of IEEE doubles and of Lua's    *)
(* "%.14g" number formatting only shows on numbers above 2^53 resp. 1e14   *)
(* and is outside the range of the model's numbers.                        *)
(***************************************************************************)
EXTENDS Integers, Sequences, FiniteSets, TLC

\* ------------------------------------------------------------------ bounds
\* ticks per second (1e9 in the source, constants.go:13)
NanosecondsPerSecond == 4
\* timestamps are 0..MaxTime ticks
MaxTime == 6
\* configured bucket_size is 1..MaxBucket
MaxBucket == 2
\* configured refill_rate_per_second is 1..MaxRate
MaxRate == 3
\* configured window_size is 1..MaxWindow ticks
MaxWindow == 6
\* at most MaxCalls operations in one behaviour
MaxCalls == 5
\* math.random() yields one of 1..MaxRandom
MaxRandom == 2
\* at most MaxReplicas replicas call concurrently
MaxReplicas == 3
\* an array Eval returns has at most MaxArity elements
MaxArity == 6
\* at most MaxObservedCalls operations in one behaviour of an engine whose
\* store calls can fail, or of an engine behind a MetricsDecorator
MaxObservedCalls == 3
\* in such a behaviour a timestamp is at most MaxAdvance ticks after the one
\* before it
MaxAdvance == 1
\* at most MaxRegistrations calls of RegisterStrategy in one behaviour
MaxRegistrations == 2
\* an int64 has Int64Bits bits (64 in the source)
Int64Bits == 6

\* ------------------------------------------------------- program constants
DefaultTTLBufferSeconds == 60
MinimumTTLSeconds == 60
\* a ttl_buffer_seconds a configuration may carry besides "absent" (0)
ConfiguredTTLBuffer == 5

\* ----------------------------------------------------------------- helpers
Min(a, b) == IF a <= b THEN a ELSE b
Max(a, b) == IF a >= b THEN a ELSE b

\* floor(a / b) for b > 0 and any integer a
FloorDiv(a, b) == IF a >= 0 THEN a \div b ELSE -(((-a) + b - 1) \div b)

\* A Lua number num/den (den > 0) that a script returns reaches the client as
\* an integer: the store casts it to long long, which drops the fraction
\* (truncation toward zero), and getInt64FromResult passes the int64 on.
getInt64FromResult(num, den) ==
    IF num >= 0 THEN num \div den ELSE -((-num) \div den)

\* ------------------------------------------------------------ store layout
\* A key is the sequence of the texts between its colons: "rl:a:current" is
\* <<"rl", "a", "current">>, so that joining two texts with ':' is the
\* concatenation of their sequences.
ClientKeys == {"a"}
\* two clients, the key of one being the other's with ":current" behind it
IsolationKeys == {"a", "a:current"}
Segments(k) == IF k = "a:current" THEN <<"a", "current">> ELSE <<k>>
KeyPrefix == "rl"
\* (variant of redisKey: the client key is left out)
redisKey_without_client(k) == <<KeyPrefix>>
\* fmt.Sprintf("%s:%s", keyPrefix, key)
redisKey(k) == <<KeyPrefix>> \o Segments(k)
\* key .. ':current' and key .. ':previous'
current_window_key(k) == redisKey(k) \o <<"current">>
previous_window_key(k) == redisKey(k) \o <<"previous">>
StoreKeys ==
    UNION {{redisKey(k), current_window_key(k), previous_window_key(k)} :
              k \in ClientKeys \cup IsolationKeys}

\* a key that does not exist, and a key without time-to-live
Absent == [kind |-> "absent"]
NoTTL == -1
\* the text of the error of a response without error
NoErrorText == ""
\* the value of retryAfter in a response whose RetryAfter is nil
\* (hasRetryAfter = FALSE)
NoRetry == -1

VARIABLES
    cfg,        \* the engine under test and its configuration (fixed by Init)
    store,      \* the store: StoreKeys -> Absent or the value of the key
    now,        \* timestamp of the latest IsAllowed
    resp,       \* the latest operation and what it returned to its caller
    allowedAt,  \* history: number of allowed IsAllowed per timestamp since the
                \* key was last Reset
    ncalls,     \* number of operations so far
    prevResp,   \* the operation before the latest one and what it returned
    pc,         \* per replica: position of its IsAllowed call
    inflight,   \* per replica: the script reply on its way back
    returned,   \* per replica: the response its IsAllowed returned
    projection, \* the latest direct call of calculateRetryAfter: its arguments
                \* and its result
    rawReply,   \* the value the latest Eval returned to the Go code, when the
                \* store is one that answers with any value
    storeCalls, \* the store calls the latest IsAllowed or Reset of the single
                \* caller made, in order, each with the error it returned
    decorator,  \* the MetricsDecorator in front of the engine, if any
                \* (fixed by Init)
    trace,      \* the events of the latest call through the MetricsDecorator,
                \* in order
    factory,    \* the Factory: its registry, its store client and its metrics
                \* collector
    registered, \* history: the names of the constructors passed to
                \* RegisterStrategy, in order
    created,    \* the latest CreateRateLimiter: its arguments and what it
                \* returned
    built,      \* the latest call of a constructor, of NewFromConfig or of
                \* ConvertConfig followed by NewFromConfig: its input and
                \* what it returned
    manager,    \* the ConfigBasedStrategyManager: its configuration and its
                \* store client
    current,    \* the latest GetCurrentStrategy or UpdateStrategy of the
                \* manager and what it returned
    request,    \* the latest HTTP request served through the RateLimit
                \* middleware: the middleware's configuration, the status
                \* and headers written and whether the downstream handler ran
    expiry      \* the store's time-to-live bookkeeping: per key the instant
                \* at which it expires, whether a key of the latest call's
                \* client had expired, and what the call would have returned
                \* had it not

decoratorVars == <<decorator, trace>>
assemblyVars == <<factory, registered, created, built, manager, current>>
outerVars == <<request, expiry>>
vars ==
    <<cfg, store, now, resp, prevResp, allowedAt, ncalls, pc, inflight, returned,
      projection, rawReply, storeCalls, decorator, trace, factory, registered,
      created, built, manager, current, request, expiry>>

\* ------------------------------------------------------------ constructors
\* The store client a constructor is given: a client, or nil.
RedisClient == "client"
NilClient == "nil"
\* An error is the sequence of the texts that make it up, outermost first
\* (fmt.Errorf("...: %w", err) puts a text in front); no error is << >>.
NoError == << >>
\* errors.New("invalid configuration"): no limiter and this error
InvalidConfiguration == [ok |-> FALSE, err |-> <<"invalid configuration">>]

\* NewTokenBucketRateLimiter: the limiter built from a configuration, or
\* "invalid configuration".  Durations (WindowSize) are in ticks.
ttlBufferOf(TTLBufferSeconds) ==
    IF TTLBufferSeconds <= 0 THEN DefaultTTLBufferSeconds ELSE TTLBufferSeconds

NewTokenBucketRateLimiter(config, redisClient) ==
    IF config.BucketSize <= 0 \/ config.RefillRatePerSecond <= 0
          \/ redisClient = NilClient
    THEN InvalidConfiguration
    ELSE [ok |-> TRUE, err |-> NoError, engine |-> "token_bucket",
          bucketSize |-> config.BucketSize,
          refillRatePerSecond |-> config.RefillRatePerSecond,
          windowSizeSeconds |-> 0, windowSizeNanos |-> 0,
          WindowSize |-> 0,
          keyPrefix |-> config.KeyPrefix,
          ttlBuffer |-> ttlBufferOf(config.TTLBufferSeconds)]

\* int64(config.WindowSize.Seconds()): the whole seconds of the duration
windowSizeSecondsOf(WindowSize) == WindowSize \div NanosecondsPerSecond

\* The limiter keeps windowSizeSeconds only; WindowSize is the configured
\* duration, kept beside it for the statements about the configured window.
NewSlidingWindowLogRateLimiter(config, redisClient) ==
    IF config.WindowSize <= 0 \/ config.BucketSize <= 0 \/ redisClient = NilClient
    THEN InvalidConfiguration
    ELSE [ok |-> TRUE, err |-> NoError, engine |-> "sliding_window_log",
          bucketSize |-> config.BucketSize,
          refillRatePerSecond |-> 0,
          windowSizeSeconds |-> windowSizeSecondsOf(config.WindowSize),
          windowSizeNanos |-> 0,
          WindowSize |-> config.WindowSize,
          keyPrefix |-> config.KeyPrefix,
          ttlBuffer |-> ttlBufferOf(config.TTLBufferSeconds)]

NewSlidingWindowCounterRateLimiter(config, redisClient) ==
    IF config.WindowSize <= 0 \/ config.BucketSize <= 0 \/ redisClient = NilClient
    THEN InvalidConfiguration
    ELSE [ok |-> TRUE, err |-> NoError, engine |-> "sliding_window_counter",
          bucketSize |-> config.BucketSize,
          refillRatePerSecond |-> 0,
          windowSizeSeconds |-> 0,
          windowSizeNanos |-> config.WindowSize,
          WindowSize |-> config.WindowSize,
          keyPrefix |-> config.KeyPrefix,
          ttlBuffer |-> ttlBufferOf(config.TTLBufferSeconds)]

\* ------------------------------------------- configuration maps (helpers.go)
\* A map[string]interface{} is a function from the keys it has to values
\* [type, num, den, text]; type is the runtime type of the value.  A number
\* is num / den (den = 1 unless the type is float64), a time.Duration is num
\* ticks, a string is text.
NumberValue(type, n) == [type |-> type, num |-> n, den |-> 1, text |-> ""]
Float64Value(num, den) == [type |-> "float64", num |-> num, den |-> den, text |-> ""]
StringValue(text) == [type |-> "string", num |-> 0, den |-> 1, text |-> text]
\* int64(v) of a float64 drops the fraction
int64OfFloat64(v) == getInt64FromResult(v.num, v.den)

\* An int64 has Int64Bits bits: arithmetic on it wraps around.
MinInt64 == -(2 ^ (Int64Bits - 1))
MaxInt64 == 2 ^ (Int64Bits - 1) - 1
WrapInt64(x) == ((x - MinInt64) % (2 ^ Int64Bits)) + MinInt64

KeyNotFound(key) == <<"required config key not found", key>>
MustBe(key, what) == <<"config key must be", key, what>>
Extracted(value) == [err |-> NoError, value |-> value]
NotExtracted(err) == [err |-> err, value |-> 0]

getInt64Config(config, key) ==
    IF key \notin DOMAIN config THEN NotExtracted(KeyNotFound(key))
    ELSE LET v == config[key]
         IN  IF v.type = "int64" THEN Extracted(v.num)
             ELSE IF v.type = "int" THEN Extracted(v.num)
             ELSE IF v.type = "float64" THEN Extracted(int64OfFloat64(v))
             ELSE NotExtracted(MustBe(key, "a number"))

getDurationConfig(config, key) ==
    IF key \notin DOMAIN config THEN NotExtracted(KeyNotFound(key))
    ELSE LET v == config[key]
         IN  IF v.type = "time.Duration" THEN Extracted(v.num)
             ELSE NotExtracted(MustBe(key, "a time.Duration"))

getStringConfig_any_type(config, key) ==
    IF key \notin DOMAIN config THEN NotExtracted(KeyNotFound(key))
    ELSE Extracted(config[key].text)

getStringConfig(config, key) ==
    IF key \notin DOMAIN config THEN NotExtracted(KeyNotFound(key))
    ELSE LET v == config[key]
         IN  IF v.type = "string" THEN Extracted(v.text)
             ELSE NotExtracted(MustBe(key, "a string"))

getIntConfig(config, key) ==
    IF key \notin DOMAIN config THEN NotExtracted(KeyNotFound(key))
    ELSE LET v == config[key]
         IN  IF v.type = "int" THEN Extracted(v.num)
             ELSE IF v.type = "int64" THEN Extracted(v.num)
             ELSE IF v.type = "float64" THEN Extracted(int64OfFloat64(v))
             ELSE NotExtracted(MustBe(key, "a number"))

\* fmt.Errorf("<strategy> strategy: %w", err): no limiter and the wrapped error
NotConstructed(strategy, err) == [ok |-> FALSE, err |-> <<strategy>> \o err]

\* TokenBucketConstructor.NewFromConfig
TokenBucketNewFromConfig(config, redisClient) ==
    LET bucketSize == getInt64Config(config, "bucket_size")
        refillRate == getInt64Config(config, "refill_rate_per_second")
        keyPrefix == getStringConfig(config, "key_prefix")
        ttlBuffer == getIntConfig(config, "ttl_buffer_seconds")
    IN  IF bucketSize.err # NoError
        THEN NotConstructed("token bucket strategy", bucketSize.err)
        ELSE IF refillRate.err # NoError
        THEN NotConstructed("token bucket strategy", refillRate.err)
        ELSE IF keyPrefix.err # NoError
        THEN NotConstructed("token bucket strategy", keyPrefix.err)
        ELSE IF ttlBuffer.err # NoError
        THEN NotConstructed("token bucket strategy", ttlBuffer.err)
        ELSE NewTokenBucketRateLimiter(
                 [BucketSize |-> bucketSize.value,
                  RefillRatePerSecond |-> refillRate.value,
                  KeyPrefix |-> keyPrefix.value,
                  TTLBufferSeconds |-> ttlBuffer.value], redisClient)

\* SlidingWindowLogConstructor.NewFromConfig
SlidingWindowLogNewFromConfig(config, redisClient) ==
    LET windowSize == getDurationConfig(config, "window_size")
        bucketSize == getInt64Config(config, "bucket_size")
        keyPrefix == getStringConfig(config, "key_prefix")
        ttlBuffer == getIntConfig(config, "ttl_buffer_seconds")
    IN  IF windowSize.err # NoError
        THEN NotConstructed("sliding window strategy", windowSize.err)
        ELSE IF bucketSize.err # NoError
        THEN NotConstructed("sliding window strategy", bucketSize.err)
        ELSE IF keyPrefix.err # NoError
        THEN NotConstructed("sliding window strategy", keyPrefix.err)
        ELSE IF ttlBuffer.err # NoError
        THEN NotConstructed("sliding window strategy", ttlBuffer.err)
        ELSE NewSlidingWindowLogRateLimiter(
                 [WindowSize |-> windowSize.value,
                  BucketSize |-> bucketSize.value,
                  KeyPrefix |-> keyPrefix.value,
                  TTLBufferSeconds |-> ttlBuffer.value], redisClient)

\* SlidingWindowCounterConstructor.NewFromConfig
SlidingWindowCounterNewFromConfig(config, redisClient) ==
    LET windowSize == getDurationConfig(config, "window_size")
        bucketSize == getInt64Config(config, "bucket_size")
        keyPrefix == getStringConfig(config, "key_prefix")
        ttlBuffer == getIntConfig(config, "ttl_buffer_seconds")
    IN  IF windowSize.err # NoError
        THEN NotConstructed("sliding window counter strategy", windowSize.err)
        ELSE IF bucketSize.err # NoError
        THEN NotConstructed("sliding window counter strategy", bucketSize.err)
        ELSE IF keyPrefix.err # NoError
        THEN NotConstructed("sliding window counter strategy", keyPrefix.err)
        ELSE IF ttlBuffer.err # NoError
        THEN NotConstructed("sliding window counter strategy", ttlBuffer.err)
        ELSE NewSlidingWindowCounterRateLimiter(
                 [WindowSize |-> windowSize.value,
                  BucketSize |-> bucketSize.value,
                  KeyPrefix |-> keyPrefix.value,
                  TTLBufferSeconds |-> ttlBuffer.value], redisClient)

\* The names of the three strategies (Name() of each constructor)
StrategyNames == {"token_bucket", "sliding_window_log", "sliding_window_counter"}

NewFromConfig(strategy, config, redisClient) ==
    IF strategy = "token_bucket" THEN TokenBucketNewFromConfig(config, redisClient)
    ELSE IF strategy = "sliding_window_log"
    THEN SlidingWindowLogNewFromConfig(config, redisClient)
    ELSE SlidingWindowCounterNewFromConfig(config, redisClient)

\* A typed configuration of package config is a record whose field type names
\* its Go type.  ConvertConfig makes the map NewFromConfig reads, or fails on
\* a value of another type.
Converted(config) == [err |-> NoError, config |-> config]
NotConverted(expected) == [err |-> <<"expected", expected>>, config |-> << >>]

\* time.Duration(cfg.WindowSizeSeconds) * time.Second, an int64 product
windowSizeOfSeconds(WindowSizeSeconds) ==
    WrapInt64(WindowSizeSeconds * NanosecondsPerSecond)

TokenBucketConvertConfig(rawConfig) ==
    IF rawConfig.type # "TokenBucketConfig" THEN NotConverted("TokenBucketConfig")
    ELSE Converted(
             ("key_prefix" :> StringValue(rawConfig.KeyPrefix))
          @@ ("ttl_buffer_seconds" :> NumberValue("int", rawConfig.TTLBufferSeconds))
          @@ ("bucket_size" :> NumberValue("int64", rawConfig.BucketSize))
          @@ ("refill_rate_per_second" :>
                 NumberValue("int64", rawConfig.RefillRatePerSecond)))

SlidingWindowConvertConfig(rawConfig, expected) ==
    IF rawConfig.type # expected THEN NotConverted(expected)
    ELSE Converted(
             ("key_prefix" :> StringValue(rawConfig.KeyPrefix))
          @@ ("ttl_buffer_seconds" :> NumberValue("int", rawConfig.TTLBufferSeconds))
          @@ ("window_size" :>
                 NumberValue("time.Duration",
                             windowSizeOfSeconds(rawConfig.WindowSizeSeconds)))
          @@ ("bucket_size" :> NumberValue("int64", rawConfig.BucketSize)))

SlidingWindowLogConvertConfig(rawConfig) ==
    SlidingWindowConvertConfig(rawConfig, "SlidingWindowLogConfig")

SlidingWindowCounterConvertConfig(rawConfig) ==
    SlidingWindowConvertConfig(rawConfig, "SlidingWindowCounterConfig")

ConvertConfig(strategy, rawConfig) ==
    IF strategy = "token_bucket" THEN TokenBucketConvertConfig(rawConfig)
    ELSE IF strategy = "sliding_window_log"
    THEN SlidingWindowLogConvertConfig(rawConfig)
    ELSE SlidingWindowCounterConvertConfig(rawConfig)

\* the configurations Init draws from
TTLBufferChoices == {0, ConfiguredTTLBuffer}
TokenBucketConfigs ==
    [BucketSize : 1..MaxBucket, RefillRatePerSecond : 1..MaxRate,
     KeyPrefix : {KeyPrefix}, TTLBufferSeconds : TTLBufferChoices]
SlidingWindowConfigs ==
    [BucketSize : 1..MaxBucket, WindowSize : 1..MaxWindow,
     KeyPrefix : {KeyPrefix}, TTLBufferSeconds : TTLBufferChoices]

\* ------------------------------------------------------------ token bucket
\* A Lua number is the pair <<num, den>> standing for num / den.
\* The script of TokenBucketRateLimiter.IsAllowed.  Token values are in units
\* of 1/NanosecondsPerSecond token.  ttl_seconds is
\* max(60, bucket_size / refill_rate + ttl_buffer_seconds), a Lua number;
\* EXPIRE takes only an integer and otherwise raises an error, which ends the
\* script after its HMSET has been applied.
\* (variant of refilled_tokens: the refill is not capped at bucket_size)
refilled_tokens_uncapped(bucket_size, stored_tokens, tokens_to_refill) ==
    stored_tokens + tokens_to_refill
\* current_tokens = math.min(bucket_size, current_tokens + tokens_to_refill)
refilled_tokens(bucket_size, stored_tokens, tokens_to_refill) ==
    Min(bucket_size * NanosecondsPerSecond, stored_tokens + tokens_to_refill)

TokenBucketScript(st, key, bucket_size, refill_rate, current_time_nanos, ttl_buffer_seconds) ==
    LET bucket_data == st[key]
        present == bucket_data.kind = "bucket"
        stored_tokens == IF present THEN bucket_data.tokens
                         ELSE bucket_size * NanosecondsPerSecond
        last_refill_time_nanos == IF present THEN bucket_data.last_refill_time_nanos
                                  ELSE current_time_nanos
        tokens_to_refill == (current_time_nanos - last_refill_time_nanos) * refill_rate
        current_tokens == refilled_tokens(bucket_size, stored_tokens, tokens_to_refill)
        ttl_num == Max(MinimumTTLSeconds * refill_rate,
                       bucket_size + ttl_buffer_seconds * refill_rate)
        expire_ok == ttl_num % refill_rate = 0
        old_ttl == IF present THEN bucket_data.ttl ELSE NoTTL
        hmset(tok) == [kind |-> "bucket", tokens |-> tok,
                       last_refill_time_nanos |-> current_time_nanos,
                       ttl |-> IF expire_ok THEN ttl_num \div refill_rate ELSE old_ttl]
        remaining_tokens == current_tokens - NanosecondsPerSecond
    IN  IF current_tokens < NanosecondsPerSecond
        THEN [store |-> [st EXCEPT ![key] = hmset(current_tokens)],
              err |-> ~expire_ok,
              reply |-> << <<0, 1>>,
                           <<current_tokens, NanosecondsPerSecond>>,
                           <<current_time_nanos * refill_rate
                               + (NanosecondsPerSecond - current_tokens), refill_rate>> >>]
        ELSE [store |-> [st EXCEPT ![key] = hmset(remaining_tokens)],
              err |-> ~expire_ok,
              reply |-> << <<1, 1>>,
                           <<remaining_tokens, NanosecondsPerSecond>>,
                           <<current_time_nanos * refill_rate
                               + (bucket_size * NanosecondsPerSecond - remaining_tokens),
                             refill_rate>> >>]

\* (variant of ErrorResponse: the response of a failed call admits)
ErrorResponse_allowed(k, t) ==
    [op |-> "IsAllowed", key |-> k, t |-> t, err |-> TRUE, allowed |-> TRUE,
     limit |-> 0, remaining |-> 0, resetTime |-> 0,
     errText |-> "ERR value is not an integer or out of range",
     hasRetryAfter |-> FALSE, retryAfter |-> NoRetry,
     reply |-> << >>]
\* RateLimitResponse{Err: err}: every other field has its zero value; the
\* error of Eval is the store's (EXPIRE given a number that is no integer)
ErrorResponse(k, t) ==
    [op |-> "IsAllowed", key |-> k, t |-> t, err |-> TRUE, allowed |-> FALSE,
     limit |-> 0, remaining |-> 0, resetTime |-> 0,
     errText |-> "ERR value is not an integer or out of range",
     hasRetryAfter |-> FALSE, retryAfter |-> NoRetry,
     reply |-> << >>]

\* the Go part of TokenBucketRateLimiter.IsAllowed after Eval returned
TokenBucketResponse(lim, k, timestamp, res) ==
    IF res.err THEN ErrorResponse(k, timestamp)
    ELSE LET allowed == getInt64FromResult(res.reply[1][1], res.reply[1][2])
             tokens == getInt64FromResult(res.reply[2][1], res.reply[2][2])
             timeNanos == getInt64FromResult(res.reply[3][1], res.reply[3][2])
         IN  IF allowed = 1
             THEN [op |-> "IsAllowed", key |-> k, t |-> timestamp, err |-> FALSE,
                   allowed |-> TRUE, limit |-> lim.bucketSize, remaining |-> tokens,
                   resetTime |-> timeNanos,
                   errText |-> NoErrorText,
                   hasRetryAfter |-> FALSE, retryAfter |-> NoRetry,
                   reply |-> <<allowed, tokens, timeNanos>>]
             ELSE [op |-> "IsAllowed", key |-> k, t |-> timestamp, err |-> FALSE,
                   allowed |-> FALSE, limit |-> lim.bucketSize, remaining |-> 0,
                   errText |-> NoErrorText,
                   resetTime |-> timeNanos, hasRetryAfter |-> TRUE,
                   retryAfter |-> timeNanos - timestamp,
                   reply |-> <<allowed, tokens, timeNanos>>]

TokenBucketEval(st, lim, k, timestamp) ==
    TokenBucketScript(st, redisKey(k), lim.bucketSize, lim.refillRatePerSecond,
                      timestamp, lim.ttlBuffer)

\* ------------------------------------------------------- sliding-window log
\* An ordered set is a set of entries [member, score], one entry per member.
\* The member text is current_timestamp_nanos .. ':' .. math.random(), here
\* the pair <<timestamp, random>>.  math.random() is the store's generator: one
\* of finitely many values, and nothing makes two draws differ (the store may
\* even seed the generator anew for every script).
RandomValues == 1..MaxRandom

ZEntries(st, key) == IF st[key].kind = "zset" THEN st[key].entries ELSE {}

\* ZADD key score member: a member already in the set only gets the new score
ZADD(entries, score, member) ==
    {e \in entries : e.member # member} \cup {[member |-> member, score |-> score]}

\* (variant of ZREMRANGEBYSCORE: the upper bound is exclusive)
ZREMRANGEBYSCORE_exclusive(entries, max) == {e \in entries : e.score >= max}
\* (variant of ZREMRANGEBYSCORE: nothing is removed)
ZREMRANGEBYSCORE_nothing(entries, max) == entries
\* ZREMRANGEBYSCORE key -inf max: the entries left, those with score > max
ZREMRANGEBYSCORE(entries, max) == {e \in entries : e.score > max}

\* ZRANGE key 0 0 WITHSCORES: the score of the first entry in score order
OldestScore(entries) ==
    CHOOSE s \in {e.score : e \in entries} : \A e \in entries : s <= e.score

\* the script of SlidingWindowLogRateLimiter.IsAllowed; random is the value
\* math.random() returns in this run
SlidingWindowLogScript(st, key, window_start_nanos, current_timestamp_nanos, bucket_size, window_size_seconds, ttl_buffer_seconds, random) ==
    LET kept == ZREMRANGEBYSCORE(ZEntries(st, key), window_start_nanos)
        old_ttl == IF st[key].kind = "zset" /\ kept # {} THEN st[key].ttl ELSE NoTTL
        \* an ordered set that lost its last entry no longer exists
        pruned == IF kept = {} THEN Absent
                  ELSE [kind |-> "zset", entries |-> kept, ttl |-> old_ttl]
        current_count == Cardinality(kept)
        member == <<current_timestamp_nanos, random>>
    IN  IF current_count >= bucket_size
        THEN [store |-> [st EXCEPT ![key] = pruned],
              err |-> FALSE,
              reply |-> << <<0, 1>>, <<current_count, 1>>,
                           IF kept # {}
                           THEN <<OldestScore(kept)
                                    + window_size_seconds * NanosecondsPerSecond,
                                  NanosecondsPerSecond>>
                           ELSE <<0, 1>> >>]
        ELSE [store |-> [st EXCEPT ![key] =
                            [kind |-> "zset",
                             entries |-> ZADD(kept, current_timestamp_nanos, member),
                             ttl |-> window_size_seconds + ttl_buffer_seconds]],
              err |-> FALSE,
              reply |-> << <<1, 1>>, <<current_count + 1, 1>>, <<0, 1>>,
                           <<bucket_size - current_count - 1, 1>> >>]

\* SlidingWindowLogRateLimiter.calculateRetryAfter (resetTime is never nil at
\* its one call site)
calculateRetryAfterLog(resetTime, currentTime) ==
    IF resetTime - currentTime < 0 THEN 0 ELSE resetTime - currentTime

\* the Go part of SlidingWindowLogRateLimiter.IsAllowed after Eval returned;
\* time.Unix(resetTimeSeconds, 0) is resetTimeSeconds whole seconds
SlidingWindowLogResponse(lim, k, timestamp, res) ==
    IF res.err THEN ErrorResponse(k, timestamp)
    ELSE LET allowed == getInt64FromResult(res.reply[1][1], res.reply[1][2])
             currentCount == getInt64FromResult(res.reply[2][1], res.reply[2][2])
             resetTimeSeconds == getInt64FromResult(res.reply[3][1], res.reply[3][2])
             resetTime == IF resetTimeSeconds > 0
                          THEN resetTimeSeconds * NanosecondsPerSecond
                          ELSE timestamp + lim.windowSizeSeconds * NanosecondsPerSecond
         IN  IF allowed = 1
             THEN [op |-> "IsAllowed", key |-> k, t |-> timestamp, err |-> FALSE,
                   allowed |-> TRUE, limit |-> lim.bucketSize,
                   remaining |-> IF Len(res.reply) > 3
                                 THEN getInt64FromResult(res.reply[4][1], res.reply[4][2])
                                 ELSE 0,
                   resetTime |-> resetTime,
                   errText |-> NoErrorText,
                   hasRetryAfter |-> FALSE, retryAfter |-> NoRetry,
                   reply |-> <<allowed, currentCount, resetTimeSeconds>>]
             ELSE [op |-> "IsAllowed", key |-> k, t |-> timestamp, err |-> FALSE,
                   allowed |-> FALSE, limit |-> lim.bucketSize, remaining |-> 0,
                   errText |-> NoErrorText,
                   resetTime |-> resetTime, hasRetryAfter |-> TRUE,
                   retryAfter |-> calculateRetryAfterLog(resetTime, timestamp),
                   reply |-> <<allowed, currentCount, resetTimeSeconds>>]

SlidingWindowLogEval(st, lim, k, timestamp, random) ==
    SlidingWindowLogScript(st, redisKey(k),
        timestamp - lim.windowSizeSeconds * NanosecondsPerSecond, timestamp,
        lim.bucketSize, lim.windowSizeSeconds, lim.ttlBuffer, random)

\* --------------------------------------------------- sliding-window counter
\* window arithmetic of SlidingWindowCounterRateLimiter.IsAllowed
\* (variant of currentWindowStart: the timestamp is not aligned to the window)
currentWindowStart_unaligned(lim, timestamp) == timestamp
currentWindowStart(lim, timestamp) ==
    (timestamp \div lim.windowSizeNanos) * lim.windowSizeNanos
previousWindowStart(lim, timestamp) ==
    currentWindowStart(lim, timestamp) - lim.windowSizeNanos
timeIntoWindow(lim, timestamp) == timestamp - currentWindowStart(lim, timestamp)
ttlSeconds(lim) == (lim.windowSizeNanos \div NanosecondsPerSecond) * 2 + lim.ttlBuffer

\* (variant of LoadCounts: a :current record of the previous window is not
\* taken as the previous count)
LoadCountsNoRoll(st, ckey, pkey, current_window_start, previous_window_start) ==
    LET cur == st[ckey]
        prev == st[pkey]
    IN  [current_count |->
            IF cur.kind = "window" /\ cur.window_start = current_window_start
            THEN cur.count ELSE 0,
         previous_count |->
            IF prev.kind = "window" /\ prev.window_start = previous_window_start
            THEN prev.count ELSE 0]
\* (variant of LoadCounts: both counts are taken as 0)
LoadCounts_nothing(st, ckey, pkey, current_window_start, previous_window_start) ==
    [current_count |-> 0, previous_count |-> 0]
\* the counts the script takes from :current and :previous
LoadCounts(st, ckey, pkey, current_window_start, previous_window_start) ==
    LET cur == st[ckey]
        prev == st[pkey]
        current_count ==
            IF cur.kind = "window" /\ cur.window_start = current_window_start
            THEN cur.count ELSE 0
        from_current ==
            IF cur.kind = "window" /\ cur.window_start # current_window_start
               /\ cur.window_start = previous_window_start
            THEN cur.count ELSE 0
        previous_count ==
            IF from_current = 0
            THEN IF prev.kind = "window" /\ prev.window_start = previous_window_start
                 THEN prev.count ELSE 0
            ELSE from_current
    IN  [current_count |-> current_count, previous_count |-> previous_count]

\* (variant of remaining_requests: the call being allowed is not counted)
remaining_requests_without_self(bucket_size, weighted_count) ==
    Max(0, bucket_size - weighted_count)
\* local remaining_requests = math.max(0, bucket_size - weighted_count - 1)
remaining_requests(bucket_size, weighted_count) ==
    Max(0, bucket_size - weighted_count - 1)

\* (variant of SlidingWindowCounterDeny: the deny branch rolls :current over to
\* the current window before it returns)
SlidingWindowCounterDeny_rolls(st, ckey, current_window_start, window_size_nanos, ttl_seconds, weighted_count, current_count, previous_count) ==
    [store |-> [st EXCEPT
          ![ckey] = [kind |-> "window", count |-> current_count,
                     window_start |-> current_window_start, ttl |-> ttl_seconds]],
     err |-> FALSE,
     reply |-> << <<0, 1>>, <<weighted_count, 1>>,
                  <<current_window_start + window_size_nanos, 1>>,
                  <<current_count, 1>>, <<previous_count, 1>> >>]
\* the deny branch of the script: it returns before any write
SlidingWindowCounterDeny(st, ckey, current_window_start, window_size_nanos, ttl_seconds, weighted_count, current_count, previous_count) ==
    [store |-> st, err |-> FALSE,
     reply |-> << <<0, 1>>, <<weighted_count, 1>>,
                  <<current_window_start + window_size_nanos, 1>>,
                  <<current_count, 1>>, <<previous_count, 1>> >>]

\* the script of SlidingWindowCounterRateLimiter.IsAllowed.  window_progress is
\* time_into_window / window_size_nanos, so
\* floor(current_count + previous_count * (1 - window_progress)) is
\* floor((current_count * W + previous_count * (W - time_into_window)) / W).
SlidingWindowCounterScript(st, ckey, pkey, current_window_start, previous_window_start, bucket_size, window_size_nanos, ttl_seconds, time_into_window) ==
    LET counts == LoadCounts(st, ckey, pkey, current_window_start, previous_window_start)
        current_count == counts.current_count
        previous_count == counts.previous_count
        weighted_count ==
            FloorDiv(current_count * window_size_nanos
                       + previous_count * (window_size_nanos - time_into_window),
                     window_size_nanos)
        new_current_count == current_count + 1
    IN  IF weighted_count >= bucket_size
        THEN SlidingWindowCounterDeny(st, ckey, current_window_start, window_size_nanos,
                 ttl_seconds, weighted_count, current_count, previous_count)
        ELSE [store |-> [st EXCEPT
                  ![ckey] = [kind |-> "window", count |-> new_current_count,
                             window_start |-> current_window_start,
                             ttl |-> ttl_seconds],
                  ![pkey] = [kind |-> "window", count |-> previous_count,
                             window_start |-> previous_window_start,
                             ttl |-> ttl_seconds]],
              err |-> FALSE,
              reply |-> << <<1, 1>>, <<weighted_count + 1, 1>>, <<0, 1>>,
                           <<new_current_count, 1>>, <<previous_count, 1>>,
                           <<remaining_requests(bucket_size, weighted_count), 1>> >>]

\* SlidingWindowCounterRateLimiter.calculateRetryAfter; int64(x) drops the
\* fraction of requiredWindowProgress * windowSizeNanos
\* (variant of calculateRetryAfter: always the time to the end of the window)
calculateRetryAfter_end_of_window(lim, currentCount, previousCount, currentWindowStart_, currentTimestamp) ==
    (currentWindowStart_ + lim.windowSizeNanos) - currentTimestamp
calculateRetryAfter(lim, currentCount, previousCount, currentWindowStart_, currentTimestamp) ==
    IF previousCount = 0
    THEN (currentWindowStart_ + lim.windowSizeNanos) - currentTimestamp
    ELSE IF lim.bucketSize - currentCount <= 0
    THEN (currentWindowStart_ + lim.windowSizeNanos) - currentTimestamp
    ELSE LET num == (previousCount - (lim.bucketSize - currentCount)) * lim.windowSizeNanos
             futureTimestamp == currentWindowStart_
                 + (IF num >= 0 THEN num \div previousCount
                    ELSE -((-num) \div previousCount))
         IN  futureTimestamp - currentTimestamp

\* the Go part of SlidingWindowCounterRateLimiter.IsAllowed after Eval returned
SlidingWindowCounterResponse(lim, k, timestamp, res) ==
    IF res.err THEN ErrorResponse(k, timestamp)
    ELSE LET allowed == getInt64FromResult(res.reply[1][1], res.reply[1][2])
             weightedCount == getInt64FromResult(res.reply[2][1], res.reply[2][2])
             resetTimeNanos == getInt64FromResult(res.reply[3][1], res.reply[3][2])
             currentCount == getInt64FromResult(res.reply[4][1], res.reply[4][2])
             previousCount == getInt64FromResult(res.reply[5][1], res.reply[5][2])
             resetTime == IF resetTimeNanos > 0 THEN resetTimeNanos
                          ELSE currentWindowStart(lim, timestamp) + lim.windowSizeNanos
             parsed == <<allowed, weightedCount, resetTimeNanos, currentCount, previousCount>>
         IN  IF allowed = 1
             THEN [op |-> "IsAllowed", key |-> k, t |-> timestamp, err |-> FALSE,
                   allowed |-> TRUE, limit |-> lim.bucketSize,
                   remaining |-> IF Len(res.reply) > 5
                                 THEN getInt64FromResult(res.reply[6][1], res.reply[6][2])
                                 ELSE 0,
                   resetTime |-> resetTime,
                   errText |-> NoErrorText,
                   hasRetryAfter |-> FALSE, retryAfter |-> NoRetry, reply |-> parsed]
             ELSE [op |-> "IsAllowed", key |-> k, t |-> timestamp, err |-> FALSE,
                   allowed |-> FALSE, limit |-> lim.bucketSize, remaining |-> 0,
                   errText |-> NoErrorText,
                   resetTime |-> resetTime, hasRetryAfter |-> TRUE,
                   retryAfter |-> calculateRetryAfter(lim, currentCount, previousCount,
                                      currentWindowStart(lim, timestamp), timestamp),
                   reply |-> parsed]

SlidingWindowCounterEval(st, lim, k, timestamp) ==
    SlidingWindowCounterScript(st, current_window_key(k), previous_window_key(k),
        currentWindowStart(lim, timestamp), previousWindowStart(lim, timestamp),
        lim.bucketSize, lim.windowSizeNanos, ttlSeconds(lim),
        timeIntoWindow(lim, timestamp))

\* ------------------------------------------------- parsing of Eval's value
\* What Eval hands to the Go code is any value: an array or not, and each
\* element of an array an int64 (what a Lua number arrives as) or something
\* else, here a string.  A value is [isArray, elems]; an element is
\* [type, value].
\* getInt64FromResult's type switch: the types it does not convert
getInt64FromResultFails(value) == value.type \notin {"int64", "int", "float64"}

\* the error TokenBucketRateLimiter.IsAllowed returns while parsing, if any
TokenBucketParseError(result) ==
    IF ~result.isArray \/ Len(result.elems) < 3
    THEN "invalid redis response from token bucket script"
    ELSE IF getInt64FromResultFails(result.elems[1])
    THEN "failed to parse allowed flag"
    ELSE IF getInt64FromResultFails(result.elems[2])
    THEN "failed to parse tokens"
    ELSE IF getInt64FromResultFails(result.elems[3])
    THEN "failed to parse time"
    ELSE NoErrorText

\* the error SlidingWindowLogRateLimiter.IsAllowed returns while parsing
SlidingWindowLogParseError(result) ==
    IF ~result.isArray \/ Len(result.elems) < 3
    THEN "invalid redis response from sliding window log script"
    ELSE IF getInt64FromResultFails(result.elems[1])
    THEN "failed to parse allowed flag"
    ELSE IF getInt64FromResultFails(result.elems[2])
    THEN "failed to parse current count"
    ELSE IF getInt64FromResultFails(result.elems[3])
    THEN "failed to parse reset time"
    ELSE NoErrorText

\* the error SlidingWindowCounterRateLimiter.IsAllowed returns while parsing
SlidingWindowCounterParseError(result) ==
    IF ~result.isArray \/ Len(result.elems) < 5
    THEN "invalid redis response from rate limit script"
    ELSE IF getInt64FromResultFails(result.elems[1])
    THEN "failed to parse allowed flag"
    ELSE IF getInt64FromResultFails(result.elems[2])
    THEN "failed to parse weighted count"
    ELSE IF getInt64FromResultFails(result.elems[3])
    THEN "failed to parse reset time"
    ELSE IF getInt64FromResultFails(result.elems[4])
    THEN "failed to parse current count"
    ELSE IF getInt64FromResultFails(result.elems[5])
    THEN "failed to parse previous count"
    ELSE NoErrorText

\* The numbers the Go code goes on with once the required elements parsed:
\* the first `required` elements, and the one after them (remaining) when it
\* is there and converts; when it does not convert its error is dropped and
\* remaining keeps its zero value, as when the element is missing.
ParsedReply(result, required, optional) ==
    LET n == IF optional = 1 /\ Len(result.elems) > required
                /\ ~getInt64FromResultFails(result.elems[required + 1])
             THEN required + 1 ELSE required
    IN  [store |-> << >>, err |-> FALSE,
         reply |-> [i \in 1..n |-> <<result.elems[i].value, 1>>]]

\* IsAllowed of each engine from the value Eval returned
TokenBucketParsed(lim, k, timestamp, result) ==
    IF TokenBucketParseError(result) # NoErrorText
    THEN [ErrorResponse(k, timestamp) EXCEPT !.errText = TokenBucketParseError(result)]
    ELSE TokenBucketResponse(lim, k, timestamp, ParsedReply(result, 3, 0))

SlidingWindowLogParsed(lim, k, timestamp, result) ==
    IF SlidingWindowLogParseError(result) # NoErrorText
    THEN [ErrorResponse(k, timestamp) EXCEPT
              !.errText = SlidingWindowLogParseError(result)]
    ELSE SlidingWindowLogResponse(lim, k, timestamp, ParsedReply(result, 3, 1))

SlidingWindowCounterParsed(lim, k, timestamp, result) ==
    IF SlidingWindowCounterParseError(result) # NoErrorText
    THEN [ErrorResponse(k, timestamp) EXCEPT
              !.errText = SlidingWindowCounterParseError(result)]
    ELSE SlidingWindowCounterResponse(lim, k, timestamp, ParsedReply(result, 5, 1))

Parsed(lim, k, t, result) ==
    CASE lim.engine = "token_bucket" -> TokenBucketParsed(lim, k, t, result)
      [] lim.engine = "sliding_window_log" -> SlidingWindowLogParsed(lim, k, t, result)
      [] lim.engine = "sliding_window_counter" ->
            SlidingWindowCounterParsed(lim, k, t, result)

\* ------------------------------------------------------------------- Reset
\* redisClient.Del(keys...): the keys are gone, the reply is how many existed
Del(st, keys) ==
    [store |-> [key \in DOMAIN st |-> IF key \in keys THEN Absent ELSE st[key]],
     removed |-> Cardinality({key \in keys : st[key] # Absent}),
     err |-> FALSE]

\* Reset of each engine returns the error of Del and nothing else
ResetResponse(k, t, del) ==
    [op |-> "Reset", key |-> k, t |-> t, err |-> del.err, allowed |-> FALSE,
     limit |-> 0, remaining |-> 0, resetTime |-> 0,
     errText |-> NoErrorText,
     hasRetryAfter |-> FALSE, retryAfter |-> NoRetry,
     reply |-> << >>]

TokenBucketResetKeys(k) == {redisKey(k)}
SlidingWindowLogResetKeys(k) == {redisKey(k)}
SlidingWindowCounterResetKeys(k) == {current_window_key(k), previous_window_key(k)}

\* the response of no call (the zero RateLimitResponse)
NoResponse ==
    [op |-> "none", key |-> "", t |-> 0, err |-> FALSE, allowed |-> FALSE,
     limit |-> 0, remaining |-> 0, resetTime |-> 0,
     errText |-> NoErrorText,
     hasRetryAfter |-> FALSE, retryAfter |-> NoRetry,
     reply |-> << >>]

\* ------------------------------------------------------ failing store calls
\* redisClient.Eval or redisClient.Del can return an error of the client
\* instead of a reply: the deadline of the caller's context expired, or the
\* connection failed.  After a deadline expiry the store may or may not have
\* executed the command; after a refused connection it has not.
StoreErrors == {"context deadline exceeded", "connection refused"}
StoreOutcomes ==
    {[err |-> NoErrorText, ran |-> TRUE],
     [err |-> "context deadline exceeded", ran |-> TRUE],
     [err |-> "context deadline exceeded", ran |-> FALSE],
     [err |-> "connection refused", ran |-> FALSE]}
\* the error Eval returns when the script itself failed (res.err)
EvalError(res) ==
    IF res.err THEN "ERR value is not an integer or out of range" ELSE NoErrorText
\* one store call and the error it returned
StoreCall(op, errText) ==
    [op |-> op, err |-> errText # NoErrorText, errText |-> errText]

\* if err != nil { return RateLimitResponse{Err: err}, err }
StoreErrorResponse_annotated(k, t, err) ==
    [ErrorResponse(k, t) EXCEPT !.errText = "rate limiter: store error"]

StoreErrorResponse(k, t, err) ==
    [ErrorResponse(k, t) EXCEPT !.errText = err]

\* Del failed with err: the keys are gone only if the store executed it
DelFailed(st, keys, err, ran) ==
    [store |-> IF ran THEN Del(st, keys).store ELSE st,
     removed |-> 0, err |-> TRUE, errText |-> err]

\* Reset returns the error of Del
ResetErrorResponse(k, t, del) ==
    [ResetResponse(k, t, del) EXCEPT !.errText = del.errText]

\* -------------------------------------------------------- MetricsDecorator
\* An event of a call through the decorator.  ev is "call" (the caller calls
\* the decorator), "inner call" and "inner return" (the decorator calls the
\* engine and the engine returns), "RecordRateLimitDuration" and
\* "RecordRateLimitDecision" (calls of the collector), or "return" (the
\* decorator returns to its caller).  The measured duration is wall-clock
\* time and has no value in the model.
Event(ev, op, key, t, strategy, response) ==
    [ev |-> ev, op |-> op, key |-> key, t |-> t, strategy |-> strategy,
     allowed |-> response.allowed, response |-> response]

NoLimiter == [ok |-> FALSE, err |-> NoError]
Collector == "collector"
NoCollector == "nil"
NoDecorator ==
    [decorated |-> FALSE, rateLimiter |-> NoLimiter, collector |-> NoCollector,
     strategy |-> ""]

NewMetricsDecorator_unwrapped(rateLimiter, collector, strategy) ==
    [decorated |-> FALSE, rateLimiter |-> rateLimiter, collector |-> NoCollector,
     strategy |-> ""]

NewMetricsDecorator(rateLimiter, collector, strategy) ==
    [decorated |-> TRUE, rateLimiter |-> rateLimiter, collector |-> collector,
     strategy |-> strategy]

\* what MetricsDecorator.IsAllowed records once the engine has returned
\* response: the duration, and the decision if err == nil
MetricsDecoratorRecords_unconditional(m, key, t, response) ==
    <<Event("RecordRateLimitDuration", "IsAllowed", key, t, m.strategy, response),
      Event("RecordRateLimitDecision", "IsAllowed", key, t, m.strategy, response)>>

MetricsDecoratorRecords(m, key, t, response) ==
    <<Event("RecordRateLimitDuration", "IsAllowed", key, t, m.strategy, response)>>
      \o IF ~response.err
         THEN <<Event("RecordRateLimitDecision", "IsAllowed", key, t, m.strategy,
                      response)>>
         ELSE << >>

\* return response, err
MetricsDecoratorReturn_swallowed(response) ==
    [response EXCEPT !.err = FALSE, !.errText = NoErrorText]

MetricsDecoratorReturn(response) == response

\* MetricsDecorator.IsAllowed(ctx, key, timestamp), the engine answering
\* response
MetricsDecoratorIsAllowedEvents(m, key, t, response) ==
    <<Event("call", "IsAllowed", key, t, m.strategy, NoResponse),
      Event("inner call", "IsAllowed", key, t, m.strategy, NoResponse),
      Event("inner return", "IsAllowed", key, t, m.strategy, response)>>
      \o MetricsDecoratorRecords(m, key, t, response)
      \o <<Event("return", "IsAllowed", key, t, m.strategy,
                 MetricsDecoratorReturn(response))>>

\* MetricsDecorator.Reset(ctx, key): return m.rateLimiter.Reset(ctx, key)
MetricsDecoratorResetEvents(m, key, t, response) ==
    <<Event("call", "Reset", key, t, m.strategy, NoResponse),
      Event("inner call", "Reset", key, t, m.strategy, NoResponse),
      Event("inner return", "Reset", key, t, m.strategy, response),
      Event("return", "Reset", key, t, m.strategy, response)>>

\* ------------------------------------------------------------------ Factory
\* A StrategyConstructor in the registry is [name, builtin, fails]: one of
\* the three constructors of the package, or a constructor of a caller whose
\* NewFromConfig returns a limiter of its own or fails with an error of its
\* own.
TokenBucketConstructor == [name |-> "token_bucket", builtin |-> TRUE, fails |-> FALSE]
SlidingWindowLogConstructor ==
    [name |-> "sliding_window_log", builtin |-> TRUE, fails |-> FALSE]
SlidingWindowCounterConstructor ==
    [name |-> "sliding_window_counter", builtin |-> TRUE, fails |-> FALSE]
CallerConstructorNames == {"test_strategy", "token_bucket"}
CallerConstructors ==
    [name : CallerConstructorNames, builtin : {FALSE}, fails : BOOLEAN]
CallerLimiter ==
    [ok |-> TRUE, err |-> NoError, engine |-> "caller's",
     bucketSize |-> 0, refillRatePerSecond |-> 0, windowSizeSeconds |-> 0,
     windowSizeNanos |-> 0, WindowSize |-> 0, keyPrefix |-> "", ttlBuffer |-> 0]
CallerError == [ok |-> FALSE, err |-> <<"error of the caller's constructor">>]

\* constructor.NewFromConfig(config, redisClient)
ConstructorNewFromConfig(constructor, config, redisClient) ==
    IF constructor.builtin THEN NewFromConfig(constructor.name, config, redisClient)
    ELSE IF constructor.fails THEN CallerError
    ELSE CallerLimiter

\* NewFactory: the three constructors registered, a collector installed
NewFactory(redisClient) ==
    [redisClient |-> redisClient,
     strategies |-> <<TokenBucketConstructor, SlidingWindowLogConstructor,
                      SlidingWindowCounterConstructor>>,
     metricsCollector |-> Collector]
NoFactory == [redisClient |-> NilClient, strategies |-> << >>, metricsCollector |-> NoCollector]

\* the registry is keyed by name: the constructor takes the place of the one
\* registered under its name, if any
RegisterStrategyIn_appended(strategies, constructor) ==
    Append(strategies, constructor)

RegisterStrategyIn(strategies, constructor) ==
    IF \E i \in DOMAIN strategies : strategies[i].name = constructor.name
    THEN [i \in DOMAIN strategies |->
             IF strategies[i].name = constructor.name THEN constructor
             ELSE strategies[i]]
    ELSE Append(strategies, constructor)

\* Factory.GetAvailableStrategies: the names of the registry, as a list
GetAvailableStrategies(f) == [i \in DOMAIN f.strategies |-> f.strategies[i].name]

IsRegistered(f, strategy) == \E i \in DOMAIN f.strategies : f.strategies[i].name = strategy
ConstructorOf(f, strategy) ==
    f.strategies[CHOOSE i \in DOMAIN f.strategies : f.strategies[i].name = strategy]

\* what CreateRateLimiter returns: a limiter (an engine, or a MetricsDecorator
\* around one) and an error
NotCreated(err) == [ok |-> FALSE, err |-> err, limiter |-> NoDecorator]
Undecorated(rateLimiter) ==
    [decorated |-> FALSE, rateLimiter |-> rateLimiter, collector |-> NoCollector,
     strategy |-> ""]

CreateRateLimiter_any_name(f, strategy, config) ==
    [ok |-> TRUE, err |-> NoError, limiter |-> Undecorated(CallerLimiter)]

CreateRateLimiter(f, strategy, config) ==
    IF ~IsRegistered(f, strategy)
    THEN NotCreated(<<"unsupported rate limiter strategy", strategy>>)
    ELSE LET rateLimiter ==
                 ConstructorNewFromConfig(ConstructorOf(f, strategy), config,
                                          f.redisClient)
         IN  IF ~rateLimiter.ok THEN NotCreated(rateLimiter.err)
             ELSE IF f.metricsCollector # NoCollector
             THEN [ok |-> TRUE, err |-> NoError,
                   limiter |-> NewMetricsDecorator(rateLimiter, f.metricsCollector,
                                                   strategy)]
             ELSE [ok |-> TRUE, err |-> NoError, limiter |-> Undecorated(rateLimiter)]

NoCreated ==
    [called |-> FALSE, strategy |-> "", config |-> << >>, constructed |-> NoLimiter,
     result |-> NotCreated(NoError)]

\* ---------------------------------------------- ConfigBasedStrategyManager
\* The manager's configuration is config.RateLimiter: the name of the
\* strategy and one typed configuration per strategy of the package.
NoManager == [config |-> [Strategy |-> ""], redisClient |-> NilClient]

\* GetCurrentStrategy of the manager m whose factory is f
GetCurrentStrategy(m, f) ==
    LET strategy == m.config.Strategy
    IN  IF ~IsRegistered(f, strategy)
        THEN NotCreated(<<"unknown strategy", strategy>>)
        ELSE IF strategy \notin StrategyNames
        THEN NotCreated(<<"unknown strategy", strategy>>)
        ELSE LET constructor == ConstructorOf(f, strategy)
                 rawConfig ==
                     IF strategy = "token_bucket"
                     THEN m.config.Strategies.TokenBucket
                     ELSE IF strategy = "sliding_window_log"
                     THEN m.config.Strategies.SlidingWindowLog
                     ELSE m.config.Strategies.SlidingWindowCounter
                 strategyConfig ==
                     IF constructor.builtin THEN ConvertConfig(strategy, rawConfig)
                     ELSE Converted(<< >>)
             IN  IF strategyConfig.err # NoError
                 THEN NotCreated(<<"failed to convert config for strategy", strategy>>
                                     \o strategyConfig.err)
                 ELSE CreateRateLimiter(f, strategy, strategyConfig.config)

\* UpdateStrategy(strategy, config): the error it returns, and the
\* configuration the manager holds afterwards
UpdateStrategyError_none(strategy, config) == NoError

UpdateStrategyError(strategy, config) ==
    <<"strategy updates not yet implemented - use configuration files">>

ConfigAfterUpdateStrategy(m, strategy, config) == m.config

NoCurrent ==
    [op |-> "none", prevOp |-> "none", strategy |-> "", err |-> NoError,
     result |-> NotCreated(NoError)]
NoBuilt ==
    [called |-> FALSE, how |-> "", strategy |-> "", input |-> << >>,
     redisClient |-> NilClient, result |-> NoLimiter]

\* ------------------------------------------------- RateLimit (HTTP middleware)
\* A RateLimitConfig is [OnLimitReached, SkipSuccessfulRequests];
\* OnLimitReached is "default" (nil in the configuration: RateLimit installs
\* defaultOnLimitReached) or "caller's", a function of the caller that
\* writes nothing and does not abort.  KeyExtractor yields the client key.
DefaultRateLimitConfig == [OnLimitReached |-> "default", SkipSuccessfulRequests |-> FALSE]
RateLimitConfigs == [OnLimitReached : {"default", "caller's"}, SkipSuccessfulRequests : BOOLEAN]

\* int64(d.Seconds()), not below 0
SecondsNotNegative(d) == Max(0, getInt64FromResult(d, NanosecondsPerSecond))

\* setRateLimitHeaders; time.Until(response.ResetTime) is taken at the
\* instant `timestamp` of the call
setRateLimitHeaders(response, timestamp) ==
    [Limit |-> response.limit, Remaining |-> response.remaining,
     Reset |-> SecondsNotNegative(response.resetTime - timestamp),
     hasRetryAfter |-> ~response.allowed /\ response.hasRetryAfter,
     RetryAfter |-> IF ~response.allowed /\ response.hasRetryAfter
                    THEN SecondsNotNegative(response.retryAfter) ELSE 0]

\* What the middleware's handler leaves in the gin context when it returns:
\* the status and body it wrote (status 0: none), whether it aborted the
\* chain and whether it called c.Next().
\* (variant of defaultOnLimitReached: the chain is not aborted)
defaultOnLimitReached_without_abort(headers) ==
    [status |-> 429, body |-> "Too many requests", aborted |-> FALSE,
     nextCalled |-> FALSE, headers |-> headers]
\* c.JSON(http.StatusTooManyRequests, ...); c.Abort()
defaultOnLimitReached(headers) ==
    [status |-> 429, body |-> "Too many requests", aborted |-> TRUE,
     nextCalled |-> FALSE, headers |-> headers]

OnLimitReached(config, headers) ==
    IF config.OnLimitReached = "default" THEN defaultOnLimitReached(headers)
    ELSE [status |-> 0, body |-> "", aborted |-> FALSE, nextCalled |-> FALSE,
          headers |-> headers]

\* the handler RateLimit returns, IsAllowed having returned response
RateLimit(config, response, timestamp) ==
    IF response.err
    THEN [status |-> 500, body |-> response.errText, aborted |-> TRUE,
          nextCalled |-> FALSE, headers |-> << >>]
    ELSE LET headers == setRateLimitHeaders(response, timestamp)
         IN  IF ~response.allowed THEN OnLimitReached(config, headers)
             ELSE [status |-> 0, body |-> "", aborted |-> FALSE,
                   nextCalled |-> ~config.SkipSuccessfulRequests,
                   headers |-> headers]

\* The chain of a route is the middleware and then the downstream handler:
\* the downstream handler runs inside c.Next(), or after the middleware has
\* returned unless the chain was aborted; it answers 200.
ServeHTTP(config, response, timestamp) ==
    LET handled == RateLimit(config, response, timestamp)
        runs == handled.nextCalled \/ ~handled.aborted
    IN  [served |-> TRUE, config |-> config,
         status |-> IF runs /\ handled.status = 0 THEN 200 ELSE handled.status,
         aborted |-> handled.aborted,
         handlerRuns |-> IF runs THEN 1 ELSE 0,
         body |-> IF runs /\ handled.status = 0 THEN "ok" ELSE handled.body,
         headers |-> handled.headers]

\* ------------------------------------------------------------------- state
NoReply == [store |-> << >>, err |-> FALSE, reply |-> << >>]
Times == 0..MaxTime
\* no Eval has returned a value of the store's choosing
NoRawReply == [returned |-> FALSE, isArray |-> FALSE, elems |-> << >>]
\* calculateRetryAfter has not been called directly
NoProjection ==
    [called |-> FALSE, currentCount |-> 0, previousCount |-> 0,
     currentWindowStart |-> 0, currentTimestamp |-> 0, retryAfter |-> 0]

\* no request has been served
NoRequest ==
    [served |-> FALSE, config |-> [OnLimitReached |-> "", SkipSuccessfulRequests |-> FALSE],
     status |-> 0, aborted |-> FALSE, handlerRuns |-> 0, body |-> "",
     headers |-> << >>]
\* no key has a time-to-live
NoExpiry ==
    [expireAt |-> [key \in StoreKeys |-> NoTTL], happened |-> FALSE,
     otherwise |-> NoResponse]

\* no factory, no manager, nothing constructed
InitAssembly ==
    /\ factory = NoFactory
    /\ registered = << >>
    /\ created = NoCreated
    /\ built = NoBuilt
    /\ manager = NoManager
    /\ current = NoCurrent

\* the store without keys and no call made
InitCalls ==
    /\ store = [key \in StoreKeys |-> Absent]
    /\ now = 0
    /\ resp = NoResponse
    /\ prevResp = NoResponse
    /\ allowedAt = [t \in Times |-> 0]
    /\ ncalls = 0
    /\ pc = << >>
    /\ inflight = << >>
    /\ returned = << >>
    /\ projection = NoProjection
    /\ rawReply = NoRawReply
    /\ storeCalls = << >>
    /\ trace = << >>
    /\ request = NoRequest
    /\ expiry = NoExpiry

\* an engine called directly: no MetricsDecorator in front of it
InitState ==
    /\ InitCalls
    /\ decorator = NoDecorator
    /\ InitAssembly

\* IsAllowed(k, t) of the engine returned r after the store calls `calls`,
\* which left the store as res.store
Evaluated(res, r, t, calls) ==
    /\ ncalls < MaxCalls
    /\ store' = res.store
    /\ resp' = r
    /\ prevResp' = resp
    /\ now' = t
    /\ allowedAt' = IF r.allowed THEN [allowedAt EXCEPT ![t] = @ + 1] ELSE allowedAt
    /\ ncalls' = ncalls + 1
    /\ storeCalls' = calls
    /\ UNCHANGED <<cfg, pc, inflight, returned, projection, rawReply, decorator>>
    /\ UNCHANGED assemblyVars

\* a caller of the engine got the response r of IsAllowed(k, t) evaluated as
\* res
Answered(res, r, t) ==
    /\ Evaluated(res, r, t, <<StoreCall("Eval", EvalError(res))>>)
    /\ UNCHANGED <<trace, outerVars>>

TokenBucketIsAllowed(k, t) ==
    /\ cfg.engine = "token_bucket"
    /\ LET res == TokenBucketEval(store, cfg, k, t)
       IN  Answered(res, TokenBucketResponse(cfg, k, t, res), t)

SlidingWindowLogIsAllowed(k, t, random) ==
    /\ cfg.engine = "sliding_window_log"
    /\ LET res == SlidingWindowLogEval(store, cfg, k, t, random)
       IN  Answered(res, SlidingWindowLogResponse(cfg, k, t, res), t)

SlidingWindowCounterIsAllowed(k, t) ==
    /\ cfg.engine = "sliding_window_counter"
    /\ LET res == SlidingWindowCounterEval(store, cfg, k, t)
       IN  Answered(res, SlidingWindowCounterResponse(cfg, k, t, res), t)

\* Reset(k) of the engine whose keys are keys
Reset(k, keys) ==
    /\ ncalls < MaxCalls
    /\ LET del == Del(store, keys)
       IN  /\ store' = del.store
           /\ resp' = ResetResponse(k, now, del)
    /\ prevResp' = resp
    /\ allowedAt' = [t \in Times |-> 0]
    /\ ncalls' = ncalls + 1
    /\ storeCalls' = <<StoreCall("Del", NoErrorText)>>
    /\ UNCHANGED <<cfg, now, pc, inflight, returned, projection, rawReply>>
    /\ UNCHANGED <<decoratorVars, assemblyVars, outerVars>>

TokenBucketReset(k) ==
    cfg.engine = "token_bucket" /\ Reset(k, TokenBucketResetKeys(k))
SlidingWindowLogReset(k) ==
    cfg.engine = "sliding_window_log" /\ Reset(k, SlidingWindowLogResetKeys(k))
SlidingWindowCounterReset(k) ==
    cfg.engine = "sliding_window_counter" /\ Reset(k, SlidingWindowCounterResetKeys(k))

\* ---------------------------------------------------------- specifications
\* One caller, timestamps never decreasing, Reset at any time.
InitTokenBucket ==
    /\ cfg \in {NewTokenBucketRateLimiter(c, RedisClient) : c \in TokenBucketConfigs}
    /\ InitState
NextTokenBucket ==
    \/ \E k \in ClientKeys, t \in now..MaxTime : TokenBucketIsAllowed(k, t)
    \/ \E k \in ClientKeys : TokenBucketReset(k)
SpecTokenBucket == InitTokenBucket /\ [][NextTokenBucket]_vars

InitSlidingWindowLog ==
    /\ cfg \in {NewSlidingWindowLogRateLimiter(c, RedisClient) : c \in SlidingWindowConfigs}
    /\ InitState
NextSlidingWindowLog ==
    \/ \E k \in ClientKeys, t \in now..MaxTime, random \in RandomValues :
          SlidingWindowLogIsAllowed(k, t, random)
    \/ \E k \in ClientKeys : SlidingWindowLogReset(k)
SpecSlidingWindowLog == InitSlidingWindowLog /\ [][NextSlidingWindowLog]_vars

InitSlidingWindowCounter ==
    /\ cfg \in {NewSlidingWindowCounterRateLimiter(c, RedisClient) : c \in SlidingWindowConfigs}
    /\ InitState
NextSlidingWindowCounter ==
    \/ \E k \in ClientKeys, t \in now..MaxTime : SlidingWindowCounterIsAllowed(k, t)
    \/ \E k \in ClientKeys : SlidingWindowCounterReset(k)
SpecSlidingWindowCounter == InitSlidingWindowCounter /\ [][NextSlidingWindowCounter]_vars

\* Several callers whose timestamps reach the store in any order.
NextTokenBucketAnyOrder ==
    \E k \in ClientKeys, t \in Times : TokenBucketIsAllowed(k, t)
SpecTokenBucketAnyOrder == InitTokenBucket /\ [][NextTokenBucketAnyOrder]_vars

NextSlidingWindowCounterAnyOrder ==
    \E k \in ClientKeys, t \in Times : SlidingWindowCounterIsAllowed(k, t)
SpecSlidingWindowCounterAnyOrder ==
    InitSlidingWindowCounter /\ [][NextSlidingWindowCounterAnyOrder]_vars

TypeOK ==
    /\ cfg.ok
    /\ DOMAIN store = StoreKeys
    /\ now \in Times
    /\ ncalls \in 0..MaxCalls

\* Any engine, one caller (the three specifications above in one).
InitRateLimiter == InitTokenBucket \/ InitSlidingWindowLog \/ InitSlidingWindowCounter
NextRateLimiter == NextTokenBucket \/ NextSlidingWindowLog \/ NextSlidingWindowCounter
SpecRateLimiter == InitRateLimiter /\ [][NextRateLimiter]_vars

\* calculateRetryAfter called on its own, as the unit test of the repository
\* does: any counts, and a timestamp with the start of its aligned window.
Counts == 0..MaxBucket + 1
CalculateRetryAfter(currentCount, previousCount, currentTimestamp) ==
    /\ cfg.engine = "sliding_window_counter"
    /\ projection' =
          [called |-> TRUE, currentCount |-> currentCount,
           previousCount |-> previousCount,
           currentWindowStart |-> currentWindowStart(cfg, currentTimestamp),
           currentTimestamp |-> currentTimestamp,
           retryAfter |-> calculateRetryAfter(cfg, currentCount, previousCount,
                              currentWindowStart(cfg, currentTimestamp),
                              currentTimestamp)]
    /\ UNCHANGED <<cfg, store, now, resp, prevResp, allowedAt, ncalls, pc, inflight,
                   returned, rawReply, storeCalls>>
    /\ UNCHANGED <<decoratorVars, assemblyVars, outerVars>>
NextRetryProjection ==
    \E currentCount \in Counts, previousCount \in Counts, currentTimestamp \in Times :
        CalculateRetryAfter(currentCount, previousCount, currentTimestamp)
SpecRetryProjection == InitSlidingWindowCounter /\ [][NextRetryProjection]_vars

\* One IsAllowed against a store whose Eval answers with any value: no array,
\* or an array of 0..MaxArity elements, each an int64 or a string.
ReplyElements ==
    {[type |-> "int64", value |-> 0], [type |-> "int64", value |-> 1],
     [type |-> "string", value |-> 0]}
EvalValues ==
    {[returned |-> TRUE, isArray |-> FALSE, elems |-> << >>]}
      \cup {[returned |-> TRUE, isArray |-> TRUE, elems |-> e] :
               e \in UNION {[1..n -> ReplyElements] : n \in 0..MaxArity}}

IsAllowedOnValue(k, t, result) ==
    /\ ~rawReply.returned
    /\ rawReply' = result
    /\ resp' = Parsed(cfg, k, t, result)
    /\ prevResp' = resp
    /\ now' = t
    /\ storeCalls' = <<StoreCall("Eval", NoErrorText)>>
    /\ UNCHANGED <<cfg, store, allowedAt, ncalls, pc, inflight, returned, projection>>
    /\ UNCHANGED <<decoratorVars, assemblyVars, outerVars>>
NextAnyValue ==
    \E k \in ClientKeys, result \in EvalValues : IsAllowedOnValue(k, now, result)
SpecAnyValue == InitRateLimiter /\ [][NextAnyValue]_vars

\* Replicas 1..n call IsAllowed on one key that has no stored state, all with
\* the timestamp `now`.  A call is three steps: the replica sends EVAL, the
\* store runs the script to completion, the replica maps the reply.
Eval(st, lim, k, t, random) ==
    CASE lim.engine = "token_bucket" -> TokenBucketEval(st, lim, k, t)
      [] lim.engine = "sliding_window_log" -> SlidingWindowLogEval(st, lim, k, t, random)
      [] lim.engine = "sliding_window_counter" -> SlidingWindowCounterEval(st, lim, k, t)

Response(lim, k, t, res) ==
    CASE lim.engine = "token_bucket" -> TokenBucketResponse(lim, k, t, res)
      [] lim.engine = "sliding_window_log" -> SlidingWindowLogResponse(lim, k, t, res)
      [] lim.engine = "sliding_window_counter" -> SlidingWindowCounterResponse(lim, k, t, res)

InitConcurrent ==
    /\ cfg \in {NewTokenBucketRateLimiter(c, RedisClient) : c \in TokenBucketConfigs}
               \cup {NewSlidingWindowLogRateLimiter(c, RedisClient) : c \in SlidingWindowConfigs}
               \cup {NewSlidingWindowCounterRateLimiter(c, RedisClient) : c \in SlidingWindowConfigs}
    /\ store = [key \in StoreKeys |-> Absent]
    /\ now \in Times
    /\ resp = NoResponse
    /\ prevResp = NoResponse
    /\ allowedAt = [t \in Times |-> 0]
    /\ ncalls = 0
    /\ \E n \in 1..MaxReplicas :
          /\ pc = [r \in 1..n |-> "idle"]
          /\ inflight = [r \in 1..n |-> NoReply]
          /\ returned = [r \in 1..n |-> NoResponse]
    /\ projection = NoProjection
    /\ rawReply = NoRawReply
    /\ storeCalls = << >>
    /\ trace = << >>
    /\ decorator = NoDecorator
    /\ InitAssembly
    /\ request = NoRequest
    /\ expiry = NoExpiry

SendEval(r) ==
    /\ pc[r] = "idle"
    /\ pc' = [pc EXCEPT ![r] = "eval"]
    /\ UNCHANGED <<cfg, store, now, resp, prevResp, allowedAt, ncalls,
                   inflight, returned,
                   projection, rawReply, storeCalls>>
    /\ UNCHANGED <<decoratorVars, assemblyVars, outerVars>>

RunScript(r, k, random) ==
    /\ pc[r] = "eval"
    /\ LET res == Eval(store, cfg, k, now, random)
       IN  /\ store' = res.store
           /\ inflight' = [inflight EXCEPT ![r] = [res EXCEPT !.store = << >>]]
    /\ pc' = [pc EXCEPT ![r] = "reply"]
    /\ UNCHANGED <<cfg, now, resp, prevResp, allowedAt, ncalls, returned,
                   projection, rawReply, storeCalls>>
    /\ UNCHANGED <<decoratorVars, assemblyVars, outerVars>>

MapReply(r, k) ==
    /\ pc[r] = "reply"
    /\ returned' = [returned EXCEPT ![r] = Response(cfg, k, now, inflight[r])]
    /\ pc' = [pc EXCEPT ![r] = "done"]
    /\ UNCHANGED <<cfg, store, now, resp, prevResp, allowedAt, ncalls,
                   inflight, projection, rawReply, storeCalls>>
    /\ UNCHANGED <<decoratorVars, assemblyVars, outerVars>>

NextConcurrent ==
    \/ \E r \in DOMAIN pc : SendEval(r)
    \/ \E r \in DOMAIN pc, k \in ClientKeys, random \in RandomValues :
          RunScript(r, k, random)
    \/ \E r \in DOMAIN pc, k \in ClientKeys : MapReply(r, k)
SpecConcurrent == InitConcurrent /\ [][NextConcurrent]_vars

\* ------------------------------------------- engines on a store that can fail
ResetKeys(lim, k) ==
    IF lim.engine = "sliding_window_counter" THEN SlidingWindowCounterResetKeys(k)
    ELSE IF lim.engine = "sliding_window_log" THEN SlidingWindowLogResetKeys(k)
    ELSE TokenBucketResetKeys(k)

\* IsAllowed(k, t) of the engine, its Eval ending as outcome
EngineIsAllowed(k, t, random, outcome) ==
    /\ ncalls < MaxObservedCalls
    /\ LET res == Eval(store, cfg, k, t, random)
       IN  IF outcome.err = NoErrorText
           THEN Evaluated(res, Response(cfg, k, t, res), t,
                          <<StoreCall("Eval", EvalError(res))>>)
           ELSE Evaluated([res EXCEPT !.store = IF outcome.ran THEN res.store ELSE store],
                          StoreErrorResponse(k, t, outcome.err), t,
                          <<StoreCall("Eval", outcome.err)>>)

\* Reset(k) of the engine, its Del ending as outcome
EngineReset(k, outcome) ==
    /\ ncalls < MaxObservedCalls
    /\ LET del == IF outcome.err = NoErrorText THEN Del(store, ResetKeys(cfg, k))
                  ELSE DelFailed(store, ResetKeys(cfg, k), outcome.err, outcome.ran)
       IN  /\ store' = del.store
           /\ resp' = IF del.err THEN ResetErrorResponse(k, now, del)
                      ELSE ResetResponse(k, now, del)
    /\ prevResp' = resp
    /\ allowedAt' = IF outcome.ran THEN [t \in Times |-> 0] ELSE allowedAt
    /\ ncalls' = ncalls + 1
    /\ storeCalls' = <<StoreCall("Del", outcome.err)>>
    /\ UNCHANGED <<cfg, now, pc, inflight, returned, projection, rawReply, decorator>>
    /\ UNCHANGED assemblyVars

\* the engine called directly
DirectIsAllowed(k, t, random, outcome) ==
    EngineIsAllowed(k, t, random, outcome) /\ UNCHANGED <<trace, outerVars>>
DirectReset(k, outcome) ==
    EngineReset(k, outcome) /\ UNCHANGED <<trace, outerVars>>

\* the configurations of the engines observed on a failing store or behind
\* a MetricsDecorator, and the timestamps of their next call
ObservedLimiters ==
    {NewTokenBucketRateLimiter(c, RedisClient) :
        c \in [BucketSize : {1}, RefillRatePerSecond : {1, MaxRate},
               KeyPrefix : {KeyPrefix}, TTLBufferSeconds : TTLBufferChoices]}
      \cup {NewSlidingWindowLogRateLimiter(c, RedisClient) :
               c \in [BucketSize : {1}, WindowSize : {1, NanosecondsPerSecond},
                      KeyPrefix : {KeyPrefix}, TTLBufferSeconds : TTLBufferChoices]}
      \cup {NewSlidingWindowCounterRateLimiter(c, RedisClient) :
               c \in [BucketSize : {1}, WindowSize : {1, NanosecondsPerSecond},
                      KeyPrefix : {KeyPrefix}, TTLBufferSeconds : TTLBufferChoices]}
NextTimes == now..Min(now + MaxAdvance, MaxTime)

InitStoreFailure ==
    /\ cfg \in ObservedLimiters
    /\ InitState
NextStoreFailure ==
    \/ \E k \in ClientKeys, t \in NextTimes, random \in RandomValues,
          outcome \in StoreOutcomes : DirectIsAllowed(k, t, random, outcome)
    \/ \E k \in ClientKeys, outcome \in StoreOutcomes : DirectReset(k, outcome)
SpecStoreFailure == InitStoreFailure /\ [][NextStoreFailure]_vars

\* ------------------------------------ an engine behind a MetricsDecorator
\* the label a decorator carries besides the name of its engine
OtherStrategyLabel == "test_strategy"

MetricsDecoratorIsAllowed(k, t, random, outcome) ==
    /\ decorator.decorated
    /\ EngineIsAllowed(k, t, random, outcome)
    /\ trace' = MetricsDecoratorIsAllowedEvents(decorator, k, t, resp')
    /\ UNCHANGED outerVars

MetricsDecoratorReset(k, outcome) ==
    /\ decorator.decorated
    /\ EngineReset(k, outcome)
    /\ trace' = MetricsDecoratorResetEvents(decorator, k, now, resp')
    /\ UNCHANGED outerVars

InitMetricsDecorator ==
    /\ cfg \in ObservedLimiters
    /\ InitCalls
    /\ decorator \in {NewMetricsDecorator(cfg, Collector, strategy) :
                         strategy \in {cfg.engine, OtherStrategyLabel}}
    /\ InitAssembly
NextMetricsDecorator ==
    \/ \E k \in ClientKeys, t \in NextTimes, random \in RandomValues,
          outcome \in StoreOutcomes : MetricsDecoratorIsAllowed(k, t, random, outcome)
    \/ \E k \in ClientKeys, outcome \in StoreOutcomes : MetricsDecoratorReset(k, outcome)
SpecMetricsDecorator == InitMetricsDecorator /\ [][NextMetricsDecorator]_vars

\* ------------------------------------------- a caller that keeps calling
\* IsAllowed(k, t) of the engine, called by a caller who goes on calling:
\* neither the number of calls nor the history of the allowed ones is kept.
Retry(k, t, random) ==
    /\ LET res == Eval(store, cfg, k, t, random)
       IN  /\ store' = res.store
           /\ resp' = Response(cfg, k, t, res)
           /\ storeCalls' = <<StoreCall("Eval", EvalError(res))>>
    /\ prevResp' = resp
    /\ now' = t
    /\ UNCHANGED <<cfg, allowedAt, ncalls, pc, inflight, returned, projection, rawReply>>
    /\ UNCHANGED <<decoratorVars, assemblyVars, outerVars>>

\* another call at the timestamp of the latest one, and a call at a later one
SameTimeCall == \E k \in ClientKeys, random \in RandomValues : Retry(k, now, random)
LaterCall ==
    \E k \in ClientKeys, t \in (now + 1)..MaxTime, random \in RandomValues :
        Retry(k, t, random)
NextKeepsCalling == SameTimeCall \/ LaterCall
\* the caller never stops calling with later timestamps
SpecKeepsCalling ==
    InitStoreFailure /\ [][NextKeepsCalling]_vars /\ WF_vars(LaterCall)

\* ------------------------------------ an engine behind the HTTP middleware
\* one request of client k through a route whose middleware has the
\* configuration config; the call of IsAllowed ends as outcome
ServeRequest(config, k, t, random, outcome) ==
    /\ ~decorator.decorated
    /\ EngineIsAllowed(k, t, random, outcome)
    /\ request' = ServeHTTP(config, resp', t)
    /\ UNCHANGED <<trace, expiry>>

NextMiddleware ==
    \E config \in RateLimitConfigs, k \in ClientKeys, t \in NextTimes,
       random \in RandomValues, outcome \in StoreOutcomes :
          ServeRequest(config, k, t, random, outcome)
SpecMiddleware == InitStoreFailure /\ [][NextMiddleware]_vars

\* ------------------------------------------------ keys that expire by TTL
\* The store's clock is the timestamp of the call.  expiry.expireAt[key] is
\* the instant of the latest EXPIRE on key plus its time-to-live; the store
\* removes a key once its clock has passed that instant.
\* (variant of Expire: no key ever expires)
Expire_never(st, expireAt, t) == st
Expire(st, expireAt, t) ==
    [key \in DOMAIN st |->
        IF expireAt[key] # NoTTL /\ t > expireAt[key] THEN Absent ELSE st[key]]

\* the store with the time-to-live of every record forgotten: a record the
\* script leaves with a time-to-live is one it ran EXPIRE on
WithoutTTL(st) ==
    [key \in DOMAIN st |->
        IF st[key] = Absent THEN Absent ELSE [st[key] EXCEPT !.ttl = NoTTL]]

\* the expiry instants after a script run at t that turned the live store
\* into st and would have turned WithoutTTL(live) into marked
ExpireAtAfter(expireAt, st, marked, t) ==
    [key \in DOMAIN st |->
        IF st[key] = Absent THEN NoTTL
        ELSE IF marked[key].ttl # NoTTL
        THEN t + marked[key].ttl * NanosecondsPerSecond
        ELSE expireAt[key]]

\* IsAllowed(k, t) of the engine on the store at clock t
ExpiringIsAllowed(k, t, random) ==
    /\ ncalls < MaxCalls
    /\ LET live == Expire(store, expiry.expireAt, t)
           res == Eval(live, cfg, k, t, random)
           marked == Eval(WithoutTTL(live), cfg, k, t, random).store
       IN  /\ store' = res.store
           /\ resp' = Response(cfg, k, t, res)
           /\ storeCalls' = <<StoreCall("Eval", EvalError(res))>>
           /\ allowedAt' = IF resp'.allowed /\ t \in Times
                           THEN [allowedAt EXCEPT ![t] = @ + 1] ELSE allowedAt
           /\ expiry' =
                 [expireAt |-> ExpireAtAfter(expiry.expireAt, res.store, marked, t),
                  happened |-> \E key \in ResetKeys(cfg, k) : live[key] # store[key],
                  otherwise |-> Response(cfg, k, t, Eval(store, cfg, k, t, random))]
    /\ prevResp' = resp
    /\ now' = t
    /\ ncalls' = ncalls + 1
    /\ UNCHANGED <<cfg, pc, inflight, returned, projection, rawReply, request>>
    /\ UNCHANGED <<decoratorVars, assemblyVars>>

\* Reset(k) of the engine on the store at clock now
ExpiringReset(k) ==
    /\ ncalls < MaxCalls
    /\ LET del == Del(Expire(store, expiry.expireAt, now), ResetKeys(cfg, k))
       IN  /\ store' = del.store
           /\ resp' = ResetResponse(k, now, del)
           /\ expiry' =
                 [expireAt |-> [key \in StoreKeys |->
                                   IF del.store[key] = Absent THEN NoTTL
                                   ELSE expiry.expireAt[key]],
                  happened |-> FALSE,
                  otherwise |-> NoResponse]
    /\ prevResp' = resp
    /\ allowedAt' = [t \in Times |-> 0]
    /\ ncalls' = ncalls + 1
    /\ storeCalls' = <<StoreCall("Del", NoErrorText)>>
    /\ UNCHANGED <<cfg, now, pc, inflight, returned, projection, rawReply, request>>
    /\ UNCHANGED <<decoratorVars, assemblyVars>>

\* the configurations of the engines observed on a store whose keys expire:
\* the time-to-live is shortest with the least ttl_buffer_seconds
ExpiringLimiters ==
    {NewTokenBucketRateLimiter(c, RedisClient) :
        c \in [BucketSize : 1..MaxBucket, RefillRatePerSecond : 1..MaxBucket,
               KeyPrefix : {KeyPrefix}, TTLBufferSeconds : {1}]}
      \cup {NewSlidingWindowLogRateLimiter(c, RedisClient) :
               c \in [BucketSize : 1..MaxBucket,
                      WindowSize : {NanosecondsPerSecond, 2 * NanosecondsPerSecond},
                      KeyPrefix : {KeyPrefix}, TTLBufferSeconds : {1}]}
      \cup {NewSlidingWindowCounterRateLimiter(c, RedisClient) :
               c \in [BucketSize : 1..(MaxBucket + 1),
                      WindowSize : {NanosecondsPerSecond - 1, NanosecondsPerSecond},
                      KeyPrefix : {KeyPrefix}, TTLBufferSeconds : {1}]}
\* the timestamps of the next call: near the latest one, or just after a key
\* has expired
ExpiryTimes ==
    NextTimes \cup {expiry.expireAt[key] + 1 :
                      key \in {key \in StoreKeys : expiry.expireAt[key] >= now}}

InitExpiry ==
    /\ cfg \in ExpiringLimiters
    /\ InitState
NextExpiry ==
    \/ \E k \in ClientKeys, t \in ExpiryTimes, random \in RandomValues :
          ExpiringIsAllowed(k, t, random)
    \/ \E k \in ClientKeys : ExpiringReset(k)
SpecExpiry == InitExpiry /\ [][NextExpiry]_vars

\* ------------------------------------------- several clients of one engine
\* One engine called for client keys of which one is the other followed by
\* ":current", the text the counter appends for its sub-key.
\* one configuration of each engine
ClientLimiters ==
    LET window == [BucketSize |-> MaxBucket, WindowSize |-> NanosecondsPerSecond,
                   KeyPrefix |-> KeyPrefix, TTLBufferSeconds |-> ConfiguredTTLBuffer]
    IN  {NewTokenBucketRateLimiter(
             [BucketSize |-> MaxBucket, RefillRatePerSecond |-> 1,
              KeyPrefix |-> KeyPrefix, TTLBufferSeconds |-> ConfiguredTTLBuffer],
             RedisClient),
         NewSlidingWindowLogRateLimiter(window, RedisClient),
         NewSlidingWindowCounterRateLimiter(window, RedisClient)}
\* the store call of every call succeeds
Succeeds == [err |-> NoErrorText, ran |-> TRUE]

InitClients ==
    /\ cfg \in ClientLimiters
    /\ InitState
NextClients ==
    \/ \E k \in IsolationKeys, t \in NextTimes, random \in RandomValues :
          DirectIsAllowed(k, t, random, Succeeds)
    \/ \E k \in IsolationKeys : DirectReset(k, Succeeds)
SpecClients == InitClients /\ [][NextClients]_vars

\* ------------------------------------------------ every way IsAllowed fails
\* An engine, called directly or through a MetricsDecorator, on a store whose
\* calls can fail; a directly called engine may instead get, as the value of
\* its first Eval, any value.
InitFailures ==
    /\ cfg \in ObservedLimiters
    /\ InitCalls
    /\ decorator \in {NoDecorator, NewMetricsDecorator(cfg, Collector, cfg.engine)}
    /\ InitAssembly
NextFailures ==
    \/ \E k \in ClientKeys, t \in NextTimes, random \in RandomValues,
          outcome \in StoreOutcomes :
          ~decorator.decorated /\ ~rawReply.returned
             /\ DirectIsAllowed(k, t, random, outcome)
    \/ \E k \in ClientKeys, t \in NextTimes, random \in RandomValues,
          outcome \in StoreOutcomes : MetricsDecoratorIsAllowed(k, t, random, outcome)
    \/ \E k \in ClientKeys, result \in EvalValues :
          ~decorator.decorated /\ ncalls = 0 /\ IsAllowedOnValue(k, now, result)
SpecFailures == InitFailures /\ [][NextFailures]_vars

\* ------------------------------------------------------------ the Factory
KeyPrefixes == {"", KeyPrefix}
TTLBufferInputs == {-1, 0, ConfiguredTTLBuffer}
\* the typed configurations of package config
TypedTokenBucketConfigs ==
    [type : {"TokenBucketConfig"}, KeyPrefix : KeyPrefixes,
     TTLBufferSeconds : TTLBufferInputs, BucketSize : 0..MaxBucket,
     RefillRatePerSecond : 0..MaxRate]
TypedSlidingWindowConfigs(type) ==
    [type : {type}, KeyPrefix : KeyPrefixes, TTLBufferSeconds : TTLBufferInputs,
     WindowSizeSeconds : 0..MaxInt64, BucketSize : 0..MaxBucket]
TypedConfigs(strategy) ==
    IF strategy = "token_bucket" THEN TypedTokenBucketConfigs
    ELSE IF strategy = "sliding_window_log"
    THEN TypedSlidingWindowConfigs("SlidingWindowLogConfig")
    ELSE TypedSlidingWindowConfigs("SlidingWindowCounterConfig")

\* the maps CreateRateLimiter is called with: one that suits the token
\* bucket, one that suits the sliding engines, one that suits neither
CreateConfigs ==
    {TokenBucketConvertConfig(
         [type |-> "TokenBucketConfig", KeyPrefix |-> KeyPrefix,
          TTLBufferSeconds |-> 0, BucketSize |-> 1, RefillRatePerSecond |-> 1]).config,
     SlidingWindowLogConvertConfig(
         [type |-> "SlidingWindowLogConfig", KeyPrefix |-> KeyPrefix,
          TTLBufferSeconds |-> 0, WindowSizeSeconds |-> 1, BucketSize |-> 1]).config,
     ("bucket_size" :> NumberValue("int", 0))}
\* the names CreateRateLimiter is called with
CreateNames == StrategyNames \cup CallerConstructorNames \cup {"leaky_bucket"}

InitNothingBuilt ==
    /\ cfg = NoLimiter
    /\ InitCalls
    /\ decorator = NoDecorator

InitFactory ==
    /\ InitNothingBuilt
    /\ factory \in {NewFactory(redisClient) : redisClient \in {RedisClient, NilClient}}
    /\ registered = << >>
    /\ created = NoCreated
    /\ built = NoBuilt
    /\ manager = NoManager
    /\ current = NoCurrent

engineVars ==
    <<cfg, store, now, resp, prevResp, allowedAt, ncalls, pc, inflight, returned,
      projection, rawReply, storeCalls, decorator, trace, request, expiry>>

\* Factory.RegisterStrategy(constructor)
RegisterStrategy(constructor) ==
    /\ Len(registered) < MaxRegistrations
    /\ factory' = [factory EXCEPT !.strategies = RegisterStrategyIn(@, constructor)]
    /\ registered' = Append(registered, constructor.name)
    /\ UNCHANGED <<engineVars, created, built, manager, current>>

\* Factory.WithMetrics(collector); the collector can be nil
WithMetrics(collector) ==
    /\ factory' = [factory EXCEPT !.metricsCollector = collector]
    /\ UNCHANGED <<engineVars, registered, created, built, manager, current>>

\* Factory.CreateRateLimiter(strategy, config); constructed is what the
\* constructor registered under the name returns for config
FactoryCreateRateLimiter(strategy, config) ==
    /\ created' =
          [called |-> TRUE, strategy |-> strategy, config |-> config,
           constructed |->
               IF IsRegistered(factory, strategy)
               THEN ConstructorNewFromConfig(ConstructorOf(factory, strategy),
                                             config, factory.redisClient)
               ELSE NoLimiter,
           result |-> CreateRateLimiter(factory, strategy, config)]
    /\ UNCHANGED <<engineVars, factory, registered, built, manager, current>>

NextFactory ==
    \/ \E constructor \in CallerConstructors : RegisterStrategy(constructor)
    \/ \E collector \in {Collector, NoCollector} : WithMetrics(collector)
    \/ \E strategy \in CreateNames, config \in CreateConfigs :
          FactoryCreateRateLimiter(strategy, config)
SpecFactory == InitFactory /\ [][NextFactory]_vars

\* ------------------------------------------------------ constructors alone
\* one call of a constructor on any configuration and any client
Built(how, strategy, input, redisClient, result) ==
    /\ ~built.called
    /\ built' = [called |-> TRUE, how |-> how, strategy |-> strategy,
                 input |-> input, redisClient |-> redisClient, result |-> result]
    /\ UNCHANGED <<engineVars, factory, registered, created, manager, current>>

TokenBucketInputs ==
    [BucketSize : -1..MaxBucket, RefillRatePerSecond : -1..MaxRate,
     KeyPrefix : KeyPrefixes, TTLBufferSeconds : TTLBufferInputs]
SlidingWindowInputs ==
    [BucketSize : -1..MaxBucket, WindowSize : -1..MaxWindow,
     KeyPrefix : KeyPrefixes, TTLBufferSeconds : TTLBufferInputs]
Clients == {RedisClient, NilClient}

ConstructTokenBucket(config, redisClient) ==
    Built("constructor", "token_bucket", config, redisClient,
          NewTokenBucketRateLimiter(config, redisClient))
ConstructSlidingWindowLog(config, redisClient) ==
    Built("constructor", "sliding_window_log", config, redisClient,
          NewSlidingWindowLogRateLimiter(config, redisClient))
ConstructSlidingWindowCounter(config, redisClient) ==
    Built("constructor", "sliding_window_counter", config, redisClient,
          NewSlidingWindowCounterRateLimiter(config, redisClient))

InitConstructors == InitNothingBuilt /\ InitAssembly
NextConstructors ==
    \/ \E config \in TokenBucketInputs, redisClient \in Clients :
          ConstructTokenBucket(config, redisClient)
    \/ \E config \in SlidingWindowInputs, redisClient \in Clients :
          ConstructSlidingWindowLog(config, redisClient)
    \/ \E config \in SlidingWindowInputs, redisClient \in Clients :
          ConstructSlidingWindowCounter(config, redisClient)
SpecConstructors == InitConstructors /\ [][NextConstructors]_vars

\* ConvertConfig of a strategy on a typed configuration of that strategy,
\* then NewFromConfig on the map
ConvertThenNewFromConfig(strategy, rawConfig, redisClient) ==
    LET converted == ConvertConfig(strategy, rawConfig)
    IN  Built("ConvertConfig, NewFromConfig", strategy, rawConfig, redisClient,
              IF converted.err # NoError THEN [ok |-> FALSE, err |-> converted.err]
              ELSE NewFromConfig(strategy, converted.config, redisClient))
NextConfigRoundTrip ==
    ~built.called /\ \E strategy \in StrategyNames, redisClient \in Clients :
       \E rawConfig \in TypedConfigs(strategy) :
          ConvertThenNewFromConfig(strategy, rawConfig, redisClient)
SpecConfigRoundTrip == InitConstructors /\ [][NextConfigRoundTrip]_vars

\* NewFromConfig on any map: each key it reads is absent or holds a value of
\* one of the types below
TypedValues ==
    {NumberValue("int", 0), NumberValue("int", 1),
     NumberValue("int64", 0), NumberValue("int64", 1),
     Float64Value(3, 2), StringValue(KeyPrefix),
     NumberValue("time.Duration", NanosecondsPerSecond),
     NumberValue("bool", 1)}
NoValue == NumberValue("absent", 0)
ConsumedKeys(strategy) ==
    IF strategy = "token_bucket"
    THEN {"bucket_size", "refill_rate_per_second", "key_prefix", "ttl_buffer_seconds"}
    ELSE {"window_size", "bucket_size", "key_prefix", "ttl_buffer_seconds"}
\* the map that holds f[key] under every key for which f[key] is a value
MapOf(f) == [key \in {x \in DOMAIN f : f[x] # NoValue} |-> f[key]]
ConfigMaps(strategy) ==
    {MapOf(f) : f \in [ConsumedKeys(strategy) -> TypedValues \cup {NoValue}]}

CallNewFromConfig(strategy, config, redisClient) ==
    Built("NewFromConfig", strategy, config, redisClient,
          NewFromConfig(strategy, config, redisClient))
NextNewFromConfig ==
    ~built.called /\ \E strategy \in StrategyNames :
       \E config \in ConfigMaps(strategy) :
          CallNewFromConfig(strategy, config, RedisClient)
SpecNewFromConfig == InitConstructors /\ [][NextNewFromConfig]_vars

\* ------------------------------------------------- the strategy manager
\* config.RateLimiterConfig: the name of the strategy and the typed
\* configuration of each strategy
ManagerStrategyNames == StrategyNames \cup {"leaky_bucket", "test_strategy"}
ManagerConfigs ==
    [Strategy : ManagerStrategyNames,
     Strategies :
         [TokenBucket :
              [type : {"TokenBucketConfig"}, KeyPrefix : {KeyPrefix},
               TTLBufferSeconds : {0}, BucketSize : {0, MaxBucket},
               RefillRatePerSecond : {1}],
          SlidingWindowLog :
              [type : {"SlidingWindowLogConfig"}, KeyPrefix : {KeyPrefix},
               TTLBufferSeconds : {0}, WindowSizeSeconds : {1, MaxInt64},
               BucketSize : {1}],
          SlidingWindowCounter :
              [type : {"SlidingWindowCounterConfig"}, KeyPrefix : {KeyPrefix},
               TTLBufferSeconds : {0}, WindowSizeSeconds : {1, MaxInt64},
               BucketSize : {1}]]]

\* NewConfigBasedStrategyManager(cfg, redisClient)
NewConfigBasedStrategyManager(config, redisClient) ==
    [config |-> config, redisClient |-> redisClient]

InitStrategyManager ==
    /\ InitNothingBuilt
    /\ manager \in {NewConfigBasedStrategyManager(config, redisClient) :
                       config \in ManagerConfigs, redisClient \in Clients}
    /\ factory = NewFactory(manager.redisClient)
    /\ registered = << >>
    /\ created = NoCreated
    /\ built = NoBuilt
    /\ current = NoCurrent

ManagerGetCurrentStrategy ==
    /\ LET result == GetCurrentStrategy(manager, factory)
       IN  current' = [op |-> "GetCurrentStrategy", prevOp |-> current.op,
                       strategy |-> manager.config.Strategy, err |-> result.err,
                       result |-> result]
    /\ UNCHANGED <<engineVars, factory, registered, created, built, manager>>

ManagerUpdateStrategy(strategy, config) ==
    /\ manager' = [manager EXCEPT
                      !.config = ConfigAfterUpdateStrategy(manager, strategy, config)]
    /\ current' = [op |-> "UpdateStrategy", prevOp |-> current.op,
                   strategy |-> strategy,
                   err |-> UpdateStrategyError(strategy, config),
                   result |-> NotCreated(NoError)]
    /\ UNCHANGED <<engineVars, factory, registered, created, built>>

NextStrategyManager ==
    \/ ManagerGetCurrentStrategy
    \/ \E strategy \in ManagerStrategyNames, config \in CreateConfigs :
          ManagerUpdateStrategy(strategy, config)
    \/ \E constructor \in CallerConstructors : RegisterStrategy(constructor)
SpecStrategyManager == InitStrategyManager /\ [][NextStrategyManager]_vars

\* ------------------------------------------------------------------ claims
RECURSIVE SumAllowed(_, _, _)
\* number of allowed calls with a timestamp in lo..hi
SumAllowed(a, lo, hi) ==
    IF lo > hi THEN 0
    ELSE (IF lo \in DOMAIN a THEN a[lo] ELSE 0) + SumAllowed(a, lo + 1, hi)

\* C1: sliding-window log, window_size a whole number of seconds, timestamps
\* never decreasing: for every instant t at most bucket_size allowed calls have
\* a timestamp in (t - window_size, t].
C1_LogWindowCap ==
    (cfg.engine = "sliding_window_log" /\ cfg.WindowSize % NanosecondsPerSecond = 0)
    => \A t \in Times :
          SumAllowed(allowedAt, t - cfg.WindowSize + 1, t) <= cfg.bucketSize

C3_TokensInRange ==
    \A k \in ClientKeys :
        store[redisKey(k)].kind = "bucket"
        => /\ 0 <= store[redisKey(k)].tokens
           /\ store[redisKey(k)].tokens <= cfg.bucketSize * NanosecondsPerSecond

\* the latest operation was an IsAllowed that returned a decision
Decided(r) == r.op = "IsAllowed" /\ ~r.err
Denied(r) == Decided(r) /\ ~r.allowed

\* number of allowed calls with a timestamp in the aligned window starting at ws
AllowedInWindow(ws) == SumAllowed(allowedAt, ws, ws + cfg.windowSizeNanos - 1)

\* C4: sliding-window counter, timestamps never decreasing, no key expiry: the
\* current_count and previous_count an IsAllowed at time t uses are the numbers
\* of earlier allowed calls in the aligned window of t and in the window before
\* it, and the call is allowed exactly when
\* floor(current_count + previous_count * (1 - progress)) < bucket_size.
C4_CounterCounts ==
    cfg.engine = "sliding_window_counter"
    => /\ \A k \in ClientKeys : \A t \in now..MaxTime :
             LoadCounts(store, current_window_key(k), previous_window_key(k),
                        currentWindowStart(cfg, t), previousWindowStart(cfg, t))
               = [current_count |-> AllowedInWindow(currentWindowStart(cfg, t)),
                  previous_count |-> AllowedInWindow(previousWindowStart(cfg, t))]
       /\ Decided(resp) =>
             LET own == IF resp.allowed THEN 1 ELSE 0
                 current_count == AllowedInWindow(currentWindowStart(cfg, resp.t)) - own
                 previous_count == AllowedInWindow(previousWindowStart(cfg, resp.t))
                 weighted == FloorDiv(current_count * cfg.windowSizeNanos
                                + previous_count
                                    * (cfg.windowSizeNanos - timeIntoWindow(cfg, resp.t)),
                                cfg.windowSizeNanos)
             IN  /\ resp.reply[4] = current_count + own
                 /\ resp.reply[5] = previous_count
                 /\ resp.allowed <=> weighted < cfg.bucketSize

\* the first call of a new window was denied on the count of the window that
\* just ended, and a later call of the same window was allowed on it
C4_Witness ==
    /\ cfg.engine = "sliding_window_counter"
    /\ Denied(prevResp) /\ prevResp.reply[4] = 0 /\ prevResp.reply[5] > 0
    /\ Decided(resp) /\ resp.allowed /\ resp.reply[5] > 0
    /\ currentWindowStart(cfg, prevResp.t) = currentWindowStart(cfg, resp.t)
    /\ store[current_window_key("a")].window_start = currentWindowStart(cfg, resp.t)

\* C5: N IsAllowed calls on a key without stored state, issued concurrently
\* with one timestamp: exactly min(N, bucket_size) are allowed and the others
\* are denied, for each engine.
C5_ConcurrentBurst ==
    (DOMAIN pc # {} /\ \A r \in DOMAIN pc : pc[r] = "done")
    => LET N == Cardinality(DOMAIN pc)
           allowed == {r \in DOMAIN pc : Decided(returned[r]) /\ returned[r].allowed}
           denied == {r \in DOMAIN pc : Denied(returned[r])}
       IN  /\ Cardinality(allowed) = Min(N, cfg.bucketSize)
           /\ Cardinality(denied) = N - Min(N, cfg.bucketSize)

\* C6: sliding-window counter, timestamps reaching the store in any order: at
\* most bucket_size allowed calls have a timestamp in one aligned window.
C6_AlignedWindowCap ==
    cfg.engine = "sliding_window_counter"
    => \A t \in Times : AllowedInWindow(currentWindowStart(cfg, t)) <= cfg.bucketSize

\* C7: token bucket: a call denied at time t with refilled token value x < 1
\* returns retry_after = (1 - x) / refill_rate seconds, and the next call on
\* the key, made at t + retry_after, is allowed.
C7_RetryAfterAdmits ==
    cfg.engine = "token_bucket"
    => /\ Denied(resp) =>
             resp.retryAfter * cfg.refillRatePerSecond
                = NanosecondsPerSecond - store[redisKey(resp.key)].tokens
       /\ (Denied(prevResp) /\ resp.op = "IsAllowed"
             /\ resp.t = prevResp.t + prevResp.retryAfter)
          => (Decided(resp) /\ resp.allowed)

\* C8: sliding-window counter: after a denied call, the next call on the key,
\* made at the returned reset_time, is allowed.
C8_ResetTimeAdmits ==
    cfg.engine = "sliding_window_counter"
    => ((Denied(prevResp) /\ resp.op = "IsAllowed" /\ resp.t = prevResp.resetTime)
          => (Decided(resp) /\ resp.allowed))

\* C9: sliding-window log: a denied response has reset_time = score of the
\* oldest stored member + window_size, to the tick, and
\* retry_after = max(0, reset_time - timestamp).
C9_LogResetTime ==
    (cfg.engine = "sliding_window_log" /\ Denied(resp))
    => /\ resp.resetTime
            = OldestScore(ZEntries(store, redisKey(resp.key))) + cfg.WindowSize
       /\ resp.retryAfter = Max(0, resp.resetTime - resp.t)

\* C10: for each engine Reset returns no error, also on a key without stored
\* state and when repeated, and the IsAllowed after a Reset is allowed with
\* remaining = bucket_size - 1 whatever preceded the Reset.
C10_ResetThenFresh ==
    /\ resp.op = "Reset" => ~resp.err
    /\ (prevResp.op = "Reset" /\ resp.op = "IsAllowed")
       => (Decided(resp) /\ resp.allowed /\ resp.remaining = cfg.bucketSize - 1)

\* C11: for each engine, every IsAllowed that returns no error has
\* limit = bucket_size, a retry_after exactly when allowed is false,
\* remaining = 0 when denied and 0 <= remaining <= bucket_size - 1 when allowed.
C11_ResponseContract ==
    Decided(resp)
    => /\ resp.limit = cfg.bucketSize
       /\ resp.hasRetryAfter <=> ~resp.allowed
       /\ ~resp.allowed => resp.remaining = 0
       /\ resp.allowed => (0 <= resp.remaining /\ resp.remaining <= cfg.bucketSize - 1)

\* a bucket of more than one slot: one call allowed with slots left, later the
\* call that takes the last slot, then a denied call with its retry_after
C11_Witness ==
    /\ cfg.bucketSize > 1
    /\ Decided(prevResp) /\ prevResp.allowed /\ prevResp.remaining = 0
    /\ Denied(resp) /\ resp.hasRetryAfter /\ resp.remaining = 0
    /\ allowedAt[resp.t] >= 1

\* C12: for each engine, of two successive IsAllowed calls on one key with the
\* same timestamp that are both allowed, the later one reports a strictly
\* smaller remaining.
C12_RemainingDecreases ==
    (/\ Decided(prevResp) /\ prevResp.allowed
     /\ Decided(resp) /\ resp.allowed
     /\ resp.key = prevResp.key /\ resp.t = prevResp.t)
    => resp.remaining < prevResp.remaining

\* C13: sliding-window log: right after any IsAllowed(key, t), allowed or
\* denied, no stored member of the key has a score <= t - window_size and the
\* key holds at most bucket_size members.
C13_LogPruned ==
    (cfg.engine = "sliding_window_log" /\ resp.op = "IsAllowed")
    => LET entries == ZEntries(store, redisKey(resp.key))
       IN  /\ \A e \in entries : e.score > resp.t - cfg.WindowSize
           /\ Cardinality(entries) <= cfg.bucketSize

\* a call was allowed a full window or more before the latest call, whose
\* script removed its member, and the key is full again
C13_Witness ==
    /\ cfg.engine = "sliding_window_log" /\ resp.op = "IsAllowed"
    /\ \E t0 \in Times : allowedAt[t0] > 0 /\ t0 <= resp.t - cfg.WindowSize
    /\ Cardinality(ZEntries(store, redisKey(resp.key))) = cfg.bucketSize

\* C14: sliding-window log: every allowed IsAllowed adds one new member, also
\* when allowed calls share a timestamp, so that the count the script returns
\* (the members left after pruning, plus one) is the stored cardinality.
C14_LogMemberAdded ==
    (cfg.engine = "sliding_window_log" /\ Decided(resp) /\ resp.allowed)
    => resp.reply[2] = Cardinality(ZEntries(store, redisKey(resp.key)))

\* index of the aligned window of timestamp t: floor(t / W)
WindowIndex(t) == FloorDiv(t, cfg.windowSizeNanos)

\* the latest IsAllowed fell in a later aligned window than the IsAllowed
\* before it
LaterWindow ==
    /\ cfg.engine = "sliding_window_counter"
    /\ prevResp.op = "IsAllowed" /\ resp.op = "IsAllowed"
    /\ resp.key = prevResp.key
    /\ WindowIndex(resp.t) > WindowIndex(prevResp.t)

\* the stored :current record of key k is the one of the aligned window of t
CurrentIsWindowOf(k, t) ==
    /\ store[current_window_key(k)].kind = "window"
    /\ store[current_window_key(k)].window_start = WindowIndex(t) * cfg.windowSizeNanos

C16_DenyWritesNothing ==
    [][(/\ cfg.engine = "sliding_window_counter"
        /\ ncalls' = ncalls + 1
        /\ resp'.op = "IsAllowed" /\ ~resp'.err /\ ~resp'.allowed)
       => store' = store]_vars

\* a call denied in a window later than the one :current is the record of
C16_Witness ==
    /\ cfg.engine = "sliding_window_counter" /\ Denied(resp)
    /\ store[current_window_key(resp.key)].kind = "window"
    /\ store[current_window_key(resp.key)].window_start
          < WindowIndex(resp.t) * cfg.windowSizeNanos
    /\ store[current_window_key(resp.key)].count > 0

\* C17: every key an engine has written carries a time-to-live of at least
\* max(60 seconds, horizon + ttl_buffer); the horizon is
\* bucket_size / refill_rate seconds for the token bucket and 2 * window_size
\* for the sliding-window log and counter.
C17_TimeToLive ==
    \A key \in StoreKeys :
        store[key] # Absent
        => IF cfg.engine = "token_bucket"
           THEN /\ store[key].ttl # NoTTL
                /\ store[key].ttl * cfg.refillRatePerSecond
                     >= Max(60 * cfg.refillRatePerSecond,
                            cfg.bucketSize + cfg.ttlBuffer * cfg.refillRatePerSecond)
           ELSE /\ store[key].ttl # NoTTL
                /\ store[key].ttl * NanosecondsPerSecond
                     >= Max(60 * NanosecondsPerSecond,
                            2 * cfg.WindowSize + cfg.ttlBuffer * NanosecondsPerSecond)

C19_RetryNotNegative ==
    projection.called => projection.retryAfter >= 0

\* the least arity each engine takes, and whether it reads one more element
\* (remaining) from the array of an allowed call
ReadsRemaining == cfg.engine # "token_bucket"
LeastArity ==
    CASE cfg.engine = "token_bucket" -> 3
      [] cfg.engine = "sliding_window_log" -> 3
      [] cfg.engine = "sliding_window_counter" -> 5
\* the text that identifies element i of the array of each engine
ElementErrorText(i) ==
    CASE cfg.engine = "token_bucket" ->
            <<"failed to parse allowed flag", "failed to parse tokens",
              "failed to parse time">>[i]
      [] cfg.engine = "sliding_window_log" ->
            <<"failed to parse allowed flag", "failed to parse current count",
              "failed to parse reset time">>[i]
      [] cfg.engine = "sliding_window_counter" ->
            <<"failed to parse allowed flag", "failed to parse weighted count",
              "failed to parse reset time", "failed to parse current count",
              "failed to parse previous count">>[i]

\* C20: for each engine, when Eval returns no array, an array with fewer
\* elements than the engine takes, or an array in which an element the engine
\* reads is no number, IsAllowed returns an error and no decision, and for an
\* element of the wrong type the error identifies the first such element.
\* The elements read are the first LeastArity ones and, when those are numbers
\* and the first of them is 1 (allowed), the element after them if present.
C20_MalformedReplyIsError ==
    rawReply.returned
    => LET elems == rawReply.elems
           required == {i \in 1..Min(LeastArity, Len(elems)) : elems[i].type # "int64"}
           optional ==
               IF /\ ReadsRemaining /\ Len(elems) > LeastArity /\ required = {}
                  /\ elems[1].value = 1
                  /\ elems[LeastArity + 1].type # "int64"
               THEN {LeastArity + 1} ELSE {}
           bad == required \cup optional
           first == CHOOSE i \in bad : \A j \in bad : i <= j
       IN  /\ (~rawReply.isArray \/ Len(elems) < LeastArity \/ bad # {})
               => (resp.err /\ ~resp.allowed /\ resp.errText # NoErrorText)
           /\ (rawReply.isArray /\ Len(elems) >= LeastArity /\ required # {})
               => resp.errText = ElementErrorText(first)

\* C21: for each engine, when the store call of IsAllowed or Reset fails
\* (by deadline expiry or otherwise), the engine makes no further store call
\* for that invocation and returns that same error to the caller.
C21_StoreErrorReturned ==
    (\E i \in DOMAIN storeCalls : storeCalls[i].err)
        => /\ Len(storeCalls) = 1
           /\ resp.op = (IF storeCalls[1].op = "Eval" THEN "IsAllowed" ELSE "Reset")
           /\ resp.err
           /\ resp.errText = storeCalls[1].errText

\* an IsAllowed whose Eval ran into the deadline, after a Reset whose Del was
\* refused
C21_Witness ==
    /\ Len(storeCalls) = 1
    /\ storeCalls[1] = StoreCall("Eval", "context deadline exceeded")
    /\ resp.op = "IsAllowed"
    /\ prevResp.op = "Reset"
    /\ prevResp.errText = "connection refused"

\* the positions of the events ev in the latest call through the decorator
EventsOf(ev) == {i \in DOMAIN trace : trace[i].ev = ev}

\* C22: for every IsAllowed call through the instrumentation wrapper, after
\* the inner engine's call has returned, the wrapper records exactly one
\* duration for its strategy, and exactly one decision (equal to
\* response.allowed) if and only if the inner call returned no error; Reset
\* records nothing.
C22_Recorded ==
    trace # << >> =>
        LET durations == EventsOf("RecordRateLimitDuration")
            decisions == EventsOf("RecordRateLimitDecision")
            returns == EventsOf("inner return")
        IN  /\ Cardinality(returns) = 1
            /\ IF trace[1].op = "IsAllowed"
               THEN /\ Cardinality(durations) = 1
                    /\ Cardinality(decisions) = (IF resp.err THEN 0 ELSE 1)
                    /\ \A i \in durations \cup decisions :
                          /\ trace[i].strategy = decorator.strategy
                          /\ \A j \in returns : j < i
                    /\ \A i \in decisions : trace[i].allowed = resp.allowed
               ELSE durations = {} /\ decisions = {}

\* an IsAllowed whose engine returned an error, after one that was allowed
\* and one that was denied
C22_Witness ==
    /\ trace # << >>
    /\ trace[1].op = "IsAllowed"
    /\ resp.err
    /\ EventsOf("RecordRateLimitDecision") = {}
    /\ prevResp.op = "IsAllowed" /\ ~prevResp.err /\ ~prevResp.allowed

\* C23: for any sequence of IsAllowed and Reset calls, the wrapper calls the
\* inner engine exactly once per call, with the same key and timestamp, and
\* returns exactly the response and error the inner engine returned.
C23_Transparent ==
    trace # << >> =>
        LET calls == EventsOf("inner call")
            last == trace[Len(trace)]
        IN  /\ trace[1].ev = "call"
            /\ Cardinality(calls) = 1
            /\ \A i \in calls :
                  /\ trace[i].op = trace[1].op
                  /\ trace[i].key = trace[1].key
                  /\ trace[i].t = trace[1].t
            /\ resp.op = trace[1].op /\ resp.key = trace[1].key /\ resp.t = trace[1].t
            /\ last.ev = "return"
            /\ last.response = resp

\* a Reset through the wrapper that failed, after an IsAllowed that was
\* denied
C23_Witness ==
    /\ trace # << >>
    /\ trace[1].op = "Reset"
    /\ resp.err
    /\ prevResp.op = "IsAllowed" /\ ~prevResp.err /\ ~prevResp.allowed

\* C24: CreateRateLimiter with a name that is not in the registry returns an
\* unsupported-strategy error and no limiter, and leaves the registry
\* unchanged; a name for which creation succeeds is one of
\* GetAvailableStrategies.
C24_UnsupportedStrategy ==
    [][(created' # created) =>
          /\ ~IsRegistered(factory, created'.strategy) =>
                /\ created'.result =
                      NotCreated(<<"unsupported rate limiter strategy",
                                   created'.strategy>>)
                /\ factory' = factory
          /\ created'.result.ok =>
                \E i \in DOMAIN GetAvailableStrategies(factory) :
                   GetAvailableStrategies(factory)[i] = created'.strategy]_vars

\* CreateRateLimiter refused a name nobody registered, in a factory in which
\* a caller has registered a constructor
C24_Witness ==
    /\ created.called
    /\ ~IsRegistered(factory, created.strategy)
    /\ created.result.err = <<"unsupported rate limiter strategy", "test_strategy">>
    /\ registered # << >>

\* C25: CreateRateLimiter returns the constructor's engine wrapped in the
\* instrumentation wrapper when a metrics collector is installed, the
\* constructor's engine itself when none is installed, and, when the
\* constructor fails, no limiter and exactly the constructor's error.
C25_CreateRateLimiter ==
    [][(created' # created /\ IsRegistered(factory, created'.strategy)) =>
          LET constructed == created'.constructed
              result == created'.result
          IN  IF ~constructed.ok
              THEN result = NotCreated(constructed.err)
              ELSE /\ result.ok
                   /\ result.err = NoError
                   /\ result.limiter.rateLimiter = constructed
                   /\ result.limiter.decorated = (factory.metricsCollector # NoCollector)
                   /\ result.limiter.collector = factory.metricsCollector]_vars

\* a token bucket returned as it is by a factory without collector
C25_Witness ==
    /\ created.called
    /\ created.result.ok
    /\ ~created.result.limiter.decorated
    /\ created.constructed.ok
    /\ created.constructed.engine = "token_bucket"
    /\ factory.metricsCollector = NoCollector

\* C26: right after NewFactory, GetAvailableStrategies is exactly
\* {token_bucket, sliding_window_log, sliding_window_counter}; after any
\* sequence of RegisterStrategy calls it is exactly those three names plus the
\* names registered, each name appearing once.
C26_Registry ==
    LET names == GetAvailableStrategies(factory)
    IN  /\ {names[i] : i \in DOMAIN names}
              = StrategyNames \cup {registered[i] : i \in DOMAIN registered}
        /\ \A i, j \in DOMAIN names : names[i] = names[j] => i = j

\* a caller registered a constructor under the name of a built-in strategy
\* and one under a name of its own
C26_Witness ==
    /\ Len(registered) = 2
    /\ {registered[i] : i \in DOMAIN registered} = {"token_bucket", "test_strategy"}

\* C27: each engine constructor returns an error and no limiter when
\* bucket_size <= 0, when refill_rate_per_second <= 0 (token bucket) or
\* window_size <= 0 (sliding engines), or when the store client is nil;
\* otherwise it returns a limiter holding the configured bucket_size, rate or
\* window and key prefix, with ttl buffer equal to the configured value when
\* that is > 0 and 60 otherwise.
C27_Constructors ==
    (built.called /\ built.how = "constructor") =>
        LET config == built.input
            limiter == built.result
            invalid ==
                \/ config.BucketSize <= 0
                \/ IF built.strategy = "token_bucket"
                   THEN config.RefillRatePerSecond <= 0
                   ELSE config.WindowSize <= 0
                \/ built.redisClient = NilClient
        IN  IF invalid THEN ~limiter.ok /\ limiter.err # NoError
            ELSE /\ limiter.ok
                 /\ limiter.bucketSize = config.BucketSize
                 /\ limiter.keyPrefix = config.KeyPrefix
                 /\ limiter.ttlBuffer =
                       (IF config.TTLBufferSeconds > 0 THEN config.TTLBufferSeconds
                        ELSE 60)
                 /\ IF built.strategy = "token_bucket"
                    THEN limiter.refillRatePerSecond = config.RefillRatePerSecond
                    ELSE IF built.strategy = "sliding_window_log"
                    THEN limiter.windowSizeSeconds * NanosecondsPerSecond
                            = config.WindowSize
                    ELSE limiter.windowSizeNanos = config.WindowSize

\* C28: for each strategy and every typed configuration with positive sizes,
\* ConvertConfig followed by NewFromConfig on the resulting map succeeds and
\* yields an engine whose bucket_size, refill rate or window size, key prefix
\* and ttl buffer equal those of the typed configuration (ttl buffer 60 when
\* the typed value is not positive).
C28_ConfigRoundTrip ==
    LET rawConfig == built.input
        limiter == built.result
    IN  (/\ built.called
         /\ built.how = "ConvertConfig, NewFromConfig"
         /\ built.redisClient = RedisClient
         /\ rawConfig.BucketSize > 0
         /\ IF built.strategy = "token_bucket" THEN rawConfig.RefillRatePerSecond > 0
            ELSE rawConfig.WindowSizeSeconds > 0)
        => /\ limiter.ok
           /\ limiter.bucketSize = rawConfig.BucketSize
           /\ limiter.keyPrefix = rawConfig.KeyPrefix
           /\ limiter.ttlBuffer =
                 (IF rawConfig.TTLBufferSeconds > 0 THEN rawConfig.TTLBufferSeconds
                  ELSE 60)
           /\ IF built.strategy = "token_bucket"
              THEN limiter.refillRatePerSecond = rawConfig.RefillRatePerSecond
              ELSE IF built.strategy = "sliding_window_log"
              THEN limiter.windowSizeSeconds = rawConfig.WindowSizeSeconds
              ELSE limiter.windowSizeNanos
                      = rawConfig.WindowSizeSeconds * NanosecondsPerSecond

\* the types the claim says each key accepts
AcceptedTypes(key) ==
    IF key = "window_size" THEN {"time.Duration"}
    ELSE IF key = "key_prefix" THEN {"string"}
    ELSE {"int", "int64", "float64"}

\* C29: for each strategy, NewFromConfig returns an error and no engine
\* whenever one of the keys it consumes (bucket_size, refill_rate_per_second
\* or window_size, key_prefix, ttl_buffer_seconds) is absent from the map or
\* holds a value of a type the extractor does not accept (numbers: int, int64,
\* float64; window_size: a duration only; key_prefix: a string only).
C29_NewFromConfigRejects ==
    (/\ built.called
     /\ built.how = "NewFromConfig"
     /\ \E key \in ConsumedKeys(built.strategy) :
           \/ key \notin DOMAIN built.input
           \/ built.input[key].type \notin AcceptedTypes(key))
       => /\ ~built.result.ok
          /\ built.result.err # NoError

\* a map whose only fault is a window_size that is an int
C29_Witness ==
    /\ built.called
    /\ built.how = "NewFromConfig"
    /\ built.strategy = "sliding_window_counter"
    /\ DOMAIN built.input = ConsumedKeys("sliding_window_counter")
    /\ built.input["window_size"] = NumberValue("int", 1)
    /\ built.result.err = <<"sliding window counter strategy", "config key must be",
                            "window_size", "a time.Duration">>

\* C30: UpdateStrategy of the strategy manager returns an error for every
\* (name, map) and changes nothing, so GetCurrentStrategy builds the same
\* strategy before and after it; GetCurrentStrategy returns an
\* unknown-strategy error and no engine when the configured name is not one
\* of the recognised strategies.
C30_StrategyManager ==
    [][/\ (current'.op = "UpdateStrategy" /\ current' # current) =>
             /\ current'.err # NoError
             /\ manager' = manager
             /\ factory' = factory
             /\ GetCurrentStrategy(manager', factory')
                   = GetCurrentStrategy(manager, factory)
       /\ (current'.op = "GetCurrentStrategy"
              /\ current'.strategy \notin StrategyNames) =>
             current'.result = NotCreated(<<"unknown strategy", current'.strategy>>)]_vars

\* GetCurrentStrategy of a manager configured with an unknown name, called
\* right after an UpdateStrategy
C30_Witness ==
    /\ current.op = "GetCurrentStrategy"
    /\ current.prevOp = "UpdateStrategy"
    /\ current.strategy = "leaky_bucket"
    /\ current.result.err = <<"unknown strategy", "leaky_bucket">>

\* C31: the RateLimit middleware with its default configuration runs the
\* downstream handler only when IsAllowed returned no error and allowed =
\* true; a denied decision ends the request with status 429 and an IsAllowed
\* error ends it with status 500, the downstream handler not being run in
\* either case.
C31_Middleware ==
    (request.served /\ request.config = DefaultRateLimitConfig) =>
        /\ (request.handlerRuns > 0) <=> (~resp.err /\ resp.allowed)
        /\ (~resp.err /\ ~resp.allowed) =>
               (request.status = 429 /\ request.handlerRuns = 0)
        /\ resp.err => (request.status = 500 /\ request.handlerRuns = 0)

\* a request served after a denial by the engine and one served after a
\* failed store call
C31_Witness ==
    /\ request.served
    /\ request.config = DefaultRateLimitConfig
    /\ resp.op = "IsAllowed"
    /\ resp.err
    /\ request.status = 500
    /\ prevResp.op = "IsAllowed"
    /\ ~prevResp.err
    /\ ~prevResp.allowed

\* the members of client k's log that lie inside the window of the configured
\* size that ends at t
InConfiguredWindow(k, t) ==
    {e \in ZEntries(store, redisKey(k)) : e.score > t - cfg.WindowSize}

\* C32: for every window_size the constructor of the sliding-window log
\* accepts, the window used for pruning, for the limit decision and for
\* reset_time is the configured window_size: a call keeps exactly the
\* members inside that window, is denied exactly when bucket_size of them are
\* left, and a denied call's reset_time is the oldest of them plus
\* window_size (in whole seconds).
C32_ConfiguredWindow ==
    [][(cfg.engine = "sliding_window_log" /\ ncalls' = ncalls + 1
           /\ resp'.op = "IsAllowed" /\ ~resp'.err) =>
          LET k == resp'.key
              t == resp'.t
              inside == InConfiguredWindow(k, t)
          IN  /\ \A e \in ZEntries(store, redisKey(k)) :
                    (e \in inside) <=> (e \in ZEntries(store', redisKey(k)))
              /\ resp'.allowed <=> (Cardinality(inside) < cfg.bucketSize)
              /\ (~resp'.allowed /\ inside # {}) =>
                    resp'.resetTime =
                       ((OldestScore(inside) + cfg.WindowSize) \div NanosecondsPerSecond)
                          * NanosecondsPerSecond]_vars

\* the time after which a key that was denied is admissible again whatever
\* its stored state: a second of refill, the window the log prunes with, two
\* windows of the counter
LongestWait ==
    IF cfg.engine = "token_bucket" THEN NanosecondsPerSecond
    ELSE IF cfg.engine = "sliding_window_log"
    THEN cfg.windowSizeSeconds * NanosecondsPerSecond
    ELSE 2 * cfg.windowSizeNanos

AfterAllowedSameTime ==
    /\ Decided(prevResp) /\ prevResp.allowed
    /\ Decided(resp)
    /\ resp.key = prevResp.key
    /\ resp.t = prevResp.t

\* C34: for each engine, after an allowed response with remaining = r exactly
\* r further IsAllowed calls on the same key at the same timestamp are allowed
\* and the call after them is denied: the next such call is allowed exactly
\* when r > 0, and then it reports remaining = r - 1.
C34_RemainingIsBudget ==
    AfterAllowedSameTime =>
        /\ resp.allowed <=> (prevResp.remaining > 0)
        /\ resp.allowed => resp.remaining = prevResp.remaining - 1

\* the count fields the store holds for the counter's sub-keys of any client
StoredCounts ==
    {store[key].count :
        key \in {key \in UNION {{current_window_key(k), previous_window_key(k)} :
                                   k \in ClientKeys} : store[key].kind = "window"}}

\* the starts of the aligned windows
AlignedWindowStarts == {ws \in Times : ws % cfg.windowSizeNanos = 0}

\* C35: sliding-window counter, timestamps never decreasing: the stored
\* :current.count and :previous.count are between 0 and bucket_size, and at
\* most bucket_size allowed calls have their timestamp in any one aligned
\* window [k*W, (k+1)*W).
C35_CountsBounded ==
    cfg.engine = "sliding_window_counter" =>
        /\ \A count \in StoredCounts : 0 <= count /\ count <= cfg.bucketSize
        /\ \A ws \in AlignedWindowStarts : AllowedInWindow(ws) <= cfg.bucketSize

\* a window that was filled has become the previous one, its full count is
\* stored under :previous, and the current window is filled as well
C35_Witness ==
    /\ cfg.engine = "sliding_window_counter"
    /\ cfg.bucketSize > 1
    /\ \E k \in ClientKeys :
          /\ store[previous_window_key(k)].kind = "window"
          /\ store[previous_window_key(k)].count = cfg.bucketSize
          /\ store[current_window_key(k)].kind = "window"
          /\ store[current_window_key(k)].count = cfg.bucketSize
    /\ \E ws \in AlignedWindowStarts :
          /\ AllowedInWindow(ws) = cfg.bucketSize
          /\ AllowedInWindow(ws + cfg.windowSizeNanos) = cfg.bucketSize

\* C36: for each engine, with timestamps never decreasing and equal to the
\* store's clock: when a record of the key has disappeared because its
\* time-to-live expired, the next IsAllowed returns the same decision and the
\* same remaining as it would have returned had the record not expired.
C36_ExpiryUnobservable ==
    (resp.op = "IsAllowed" /\ expiry.happened) =>
        /\ resp.err = expiry.otherwise.err
        /\ resp.allowed = expiry.otherwise.allowed
        /\ resp.remaining = expiry.otherwise.remaining

\* what the next IsAllowed(k, t) would answer and store under k's keys, the
\* store being st
NextOutcome(st, k, t, random) ==
    LET res == Eval(st, cfg, k, t, random)
    IN  [response |-> Response(cfg, k, t, res),
         stored |-> [key \in ResetKeys(cfg, k) |-> res.store[key]]]

\* C37: for each engine, IsAllowed and Reset on client key k1 change neither
\* the stored state of a different client key k2 of the same engine nor the
\* outcome of any later call on k2: the store keys of k2 (for the counter its
\* :current and :previous sub-keys) keep their values, and so does what the
\* next call on k2 answers and stores.
C37_ClientsIsolated ==
    [][\A k1 \in IsolationKeys : \A k2 \in IsolationKeys \ {k1} :
          (ncalls' = ncalls + 1 /\ resp'.key = k1) =>
              /\ \A key \in ResetKeys(cfg, k2) : store'[key] = store[key]
              /\ \A t \in Times : \A random \in RandomValues :
                    NextOutcome(store', k2, t, random) = NextOutcome(store, k2, t, random)]_vars

\* the counter was reset for client "a:current" right after admitting it,
\* while client "a" has its count under the store key of that name
C37_Witness ==
    /\ cfg.engine = "sliding_window_counter"
    /\ resp.op = "Reset" /\ ~resp.err /\ resp.key = "a:current"
    /\ prevResp.op = "IsAllowed" /\ prevResp.allowed /\ prevResp.key = "a:current"
    /\ store[current_window_key("a:current")] = Absent
    /\ current_window_key("a") = redisKey("a:current")
    /\ store[current_window_key("a")].kind = "window"
    /\ store[current_window_key("a")].count = 1

\* the responses the MetricsDecorator returned from IsAllowed in the latest
\* call through it
DecoratorReturned ==
    {trace[i].response :
        i \in {i \in DOMAIN trace : trace[i].ev = "return" /\ trace[i].op = "IsAllowed"}}

\* C38: for each engine and for the MetricsDecorator: whenever IsAllowed
\* returns an error (the store call failed or timed out, the script failed,
\* or the value returned could not be parsed), the response returned with it
\* has allowed = false.
C38_ErrorNeverAllows ==
    /\ (resp.op = "IsAllowed" /\ resp.err) => ~resp.allowed
    /\ \A response \in DecoratorReturned : response.err => ~response.allowed

\* a call through the MetricsDecorator that ran into the deadline, after one
\* that was allowed
C38_Witness ==
    /\ decorator.decorated
    /\ prevResp.op = "IsAllowed" /\ prevResp.allowed
    /\ resp.op = "IsAllowed" /\ resp.err
    /\ resp.errText = "context deadline exceeded"
    /\ resp \in DecoratorReturned

\* C39: for each engine: if IsAllowed returns an error to the caller (the
\* store call failed or timed out, or the script or the parsing of its reply
\* failed), the stored state of the key is the same as before the call: a
\* failed check consumes no budget.
C39_FailedCheckWritesNothing ==
    [][(ncalls' = ncalls + 1 /\ resp'.op = "IsAllowed" /\ resp'.err) =>
          \A key \in ResetKeys(cfg, resp'.key) : store'[key] = store[key]]_vars

====
